---- MODULE Spec2Model ----
(***************************************************************************)
(* Approval-gated video generation pipeline of video_bot25.                *)
(*                                                                         *)
(* The specifications below share one set of variables.                    *)
(*   GateSpec  the ApprovalManager (approval_service.py) alone: a waiter   *)
(*             polling one (job, stage) key, callers writing decisions in  *)
(*             their own database transactions, is_approved reads.         *)
(*   Spec      the Celery task generate_video_task (video_generation.py)   *)
(*             and generate_video_enhanced_task                            *)
(*             (video_generation_enhanced.py) driving one job through the  *)
(*             three approval gates, with task-level retry.                *)
(*   BatchSpec, CallbackSpec   the segment batches of VideoService         *)
(*             (video_service.py), with a progress callback that returns   *)
(*             or with any callback.                                       *)
(*   MediaSpec, MediaFairSpec   split_script, the audio duration match and *)
(*             the final assembly (script_service.py, audio_service.py,    *)
(*             video_generation.py).                                       *)
(*   HandlerSpec   the persistent-keyboard handlers                        *)
(*             (handlers_enhanced.py) against the enhanced task at a gate. *)
(*   ReadFaultSpec   GateSpec with reads of the table that can fail.       *)
(*   RetrySpec   the retry loops of the OpenAI and Runway wrappers.        *)
(*   FilesSpec   the job directories under TEMP_DIR and their cleanup.     *)
(*                                                                         *)
(* Time is counted in whole seconds.  A database round trip and a          *)
(* notification take no time; time.sleep(POLL_INTERVAL) takes exactly      *)
(* POLL_INTERVAL seconds.                                                  *)
(***************************************************************************)
EXTENDS Integers, Sequences, FiniteSets, TLC

\* ------------------------------------------------------------------------
\* Bounds of the model
\* ------------------------------------------------------------------------
\* Clock horizon, in seconds.
MaxTime == 8
\* Total number of approve/cancel calls in GateSpec.
MaxDecides == 2
\* Number of button presses handled in Spec, over all approval requests.
MaxClicks == 3
\* Config.APPROVAL_TIMEOUT (600 s) scaled down to the clock horizon.
APPROVAL_TIMEOUT == 4
\* ApprovalManager.APPROVAL_TTL_MINUTES (15 min = 900 s), scaled down so that
\* the TTL stays longer than the approval timeout, as in the source.
APPROVAL_TTL == 6
\* Largest number of segments in one batch.
MaxSegments == 5
\* Longest script, in sentences, and most parts of one sentence.
MaxSentences == 3
MaxParts == 2
\* Longest speech the text-to-speech returns, in tenths of a second, apart
\* from the durations around the target.
MaxAudio == 100
\* Largest small size limit, in MB, and longest short video, in tenths of
\* a second, that compress_video is tried on.
MaxSizeLimit == 3
MaxProbed == 60
\* Number of presses of the persistent keyboard's approve and reject buttons.
MaxPresses == 1
\* The clock of the temp directory: ticks per hour, and the oldest age followed
TicksPerHour == 2
MaxAge == 4

\* ------------------------------------------------------------------------
\* Program constants
\* ------------------------------------------------------------------------
POLL_INTERVAL == 2
max_retries == 3
\* self.retry(exc=e, countdown=60)
RETRY_COUNTDOWN == 60
\* VideoService(max_workers=3): size of the ThreadPoolExecutor
max_workers == 3
PROGRESS_EVERY == 5
\* Config.TARGET_VIDEO_DURATION, Config.SEGMENT_DURATION (seconds)
TARGET_VIDEO_DURATION == 240
SEGMENT_DURATION == 5
\* Config.NUM_SEGMENTS = TARGET_VIDEO_DURATION // SEGMENT_DURATION
NUM_SEGMENTS == TARGET_VIDEO_DURATION \div SEGMENT_DURATION
\* Config.MAX_VIDEO_SIZE_MB
MAX_VIDEO_SIZE_MB == 50
\* Config.OPENAI_MAX_RETRIES; RunwayService.max_retries
OPENAI_MAX_RETRIES == 3
RUNWAY_MAX_RETRIES == 2
\* Config.FILE_CLEANUP_HOURS
FILE_CLEANUP_HOURS == 1

STATUS_APPROVED == "approved"
STATUS_CANCELLED == "cancelled"

JobId == "j1"
Stages == <<"script", "images", "videos">>
StageSet == {Stages[i] : i \in 1..Len(Stages)}
Callers == {"c1", "c2"}
\* The (job, stage) keys that GateSpec's callers and waiter use.
GateStages == {"script", "images"}
\* The key GateSpec's waiter polls.
GateWaitStage == "script"

VARIABLES
    now,          \* wall clock (datetime.utcnow / time.time), seconds
    store,        \* committed rows of table approval_statuses
    nextId,       \* autoincrement of ApprovalStatus.id
    txn,          \* per caller: the open transaction of approve()/cancel()
    decides,      \* number of approve/cancel calls begun so far
    lastDecide,   \* history: per stage, the call that committed last
    overlapped,   \* history: per stage, two calls were in flight at once
    wait,         \* the running wait_for_approval call; errors counts its
                  \* reads that raised
    lastRead,     \* the last is_approved call and what it returned
    variant,      \* which Celery task runs the job: "basic" | "enhanced"
    voice,        \* the prompt is a "__VOICE_MESSAGE__|..." marker
    pc,           \* position of the task in its body
    retries,      \* self.request.retries
    jobRow,       \* status column of the job's database row, or "absent"
    notified,     \* last JobStatus passed to send_status_update
    stagesRun,    \* history: stages invoked, over all attempts
    gateResult,   \* history: per stage, what the wait at that gate returned
    requested,    \* stages whose approval request (buttons) was sent
    clicks,       \* per stage, button presses handled so far
    jobDir,       \* the job's working directory exists
    extFailure,   \* history: a collaborator call raised
    result,       \* what the task returned or raised last
    persisted,    \* enhanced task: video_job is a persistent row of its session
    jobStates,    \* history: the states the job has been in, in order
    scheduled,    \* history: the countdowns of the retries scheduled
    sent,         \* history: the terminal messages sent to the user
    batch,        \* the running generate_images_only / animate_images_only call
    split,        \* the running ScriptService.split_script call
    audio,        \* the running AudioService.generate_audio call
    assembly,     \* the running _assemble_final_video call
    timeLimit,    \* history: the worker raised SoftTimeLimitExceeded in the task
    dbSegments,   \* enhanced job: its segment rows, and the task's db_segments list
    pressed,      \* history: the last press of Подтвердить / Отклонить handled
    upstream,     \* the running call of an OpenAI / Runway wrapper
    tempDir       \* the job directories under Config.TEMP_DIR, and shutdown

gateVars == <<now, store, nextId, txn, decides, lastDecide, overlapped, wait, lastRead>>
taskVars == <<variant, voice, pc, retries, jobRow, notified, stagesRun, gateResult,
              requested, clicks, jobDir, extFailure, result, persisted, jobStates,
              scheduled, sent, batch, split, audio, assembly, timeLimit, upstream, tempDir, dbSegments, pressed>>
vars == <<now, store, nextId, txn, decides, lastDecide, overlapped, wait, lastRead,
          variant, voice, pc, retries, jobRow, notified, stagesRun, gateResult,
          requested, clicks, jobDir, extFailure, result, persisted, jobStates,
          scheduled, sent, batch, split, audio, assembly, timeLimit, upstream, tempDir, dbSegments, pressed>>

\* ------------------------------------------------------------------------
\* ApprovalStatus rows and ApprovalManager (approval_service.py)
\* ------------------------------------------------------------------------
NoRow == [id |-> 0, job_id |-> "", approval_type |-> "", status |-> "none",
          created_at |-> 0, expires_at |-> 0]

ApprovalStatus(id, job_id, approval_type, status, created_at, expires_at) ==
    [id |-> id, job_id |-> job_id, approval_type |-> approval_type,
     status |-> status, created_at |-> created_at, expires_at |-> expires_at]

\* The rows of one (job, stage) key.
RowsOfKey_anyStage(rows, job_id, approval_type) ==
    {r \in rows : r.job_id = job_id}
RowsOfKey(rows, job_id, approval_type) ==
    {r \in rows : r.job_id = job_id /\ r.approval_type = approval_type}

\* expires_at = utcnow() + timedelta(minutes = APPROVAL_TTL_MINUTES)
ExpiresAt(t) == t + APPROVAL_TTL

\* filter(job_id ==, approval_type ==, expires_at > utcnow())
LiveRows_noExpiry(rows, job_id, approval_type, t) ==
    RowsOfKey(rows, job_id, approval_type)
LiveRows(rows, job_id, approval_type, t) ==
    {r \in RowsOfKey(rows, job_id, approval_type) : r.expires_at > t}

\* query(...).first(): no ORDER BY, so any matching row; None without one.
First(rows) == IF rows = {} THEN {NoRow} ELSE rows

\* _cleanup_expired: delete rows with expires_at < now.
CleanupExpired(rows, t) == {r \in rows : ~(r.expires_at < t)}

\* approve()/cancel(), first statement: DELETE of the key's rows.  The ids of
\* the rows this statement removes when its transaction commits.
DeleteOld_none(rows, job_id, approval_type) == {}
DeleteOld(rows, job_id, approval_type) ==
    {r.id : r \in RowsOfKey(rows, job_id, approval_type)}

\* elapsed_time >= timeout
TimedOut_late(elapsed, timeout) == elapsed > timeout
TimedOut(elapsed, timeout) == elapsed >= timeout

NoTxn == [open |-> FALSE, approval_type |-> "", status |-> "none",
          deleted |-> {}, expires_at |-> 0]
NoDecide == [status |-> "none", at |-> 0]
IdleWait == [state |-> "idle", approval_type |-> "", start |-> 0, next |-> 0,
             outcome |-> "none", elapsed |-> 0, row |-> NoRow, seen |-> NoDecide,
             errors |-> 0]
NoRead == [approval_type |-> "", result |-> "unread", row |-> NoRow]
\* No row of video_segments_enhanced for the job; db_segments not yet queried.
NoSegments == [rows |-> "none", loaded |-> "unset"]
\* No wrapper call is running.
NoCall == [state |-> "idle", wrapper |-> "", attempt |-> 0, responses |-> <<>>,
           delays |-> <<>>]
\* The names a job directory can have, and the marker of one that is not there.
DirNames == {"j1", "j2", "j3"}
Absent == -1
\* Config.ensure_directories has created an empty TEMP_DIR; the application runs.
EmptyTempDir == [age |-> [d \in DirNames |-> Absent], stopped |-> FALSE,
                 last |-> "none"]
\* No button of the persistent keyboard has been pressed.
NoPress == [handler |-> "none", status |-> "", approval_type |-> "None",
            pc |-> "", stages |-> 0, count |-> 0]
\* No batch call is running.
IdleBatch == [state |-> "idle", fn |-> "", input |-> <<>>, pending |-> {},
              collected |-> <<>>, failed |-> 0, raisedIn |-> {},
              output |-> <<>>, calls |-> <<>>, progress |-> <<>>,
              callback |-> "returns", callback_raised |-> {}]
\* No split_script call is running.
IdleSplit == [state |-> "idle", num_segments |-> 0, segment_duration |-> 0,
              script |-> <<>>, chunks |-> <<>>, segments |-> <<>>]
\* No generate_audio call is running.
IdleAudio == [state |-> "idle", fn |-> "", actual |-> 0, target |-> 0,
              num |-> 0, den |-> 1, steps |-> <<>>, adjusted |-> FALSE,
              out_duration |-> 0]
\* No _assemble_final_video call is running.
IdleAssembly == [state |-> "idle", fn |-> "", input |-> <<>>,
                 video_paths |-> <<>>, max_size_mb |-> 0, duration |-> 0,
                 file_size_mb |-> 0, compressions |-> 0, target_bitrate |-> 0,
                 output |-> [asset |-> "", size_mb |-> 0, duration |-> 0]]

\* ------------------------------------------------------------------------
\* Clock
\* ------------------------------------------------------------------------
\* A sleeping waiter wakes exactly when its sleep ends; a database
\* transaction is over within the second in which it began.  lastRead keeps
\* an is_approved call only until the clock or the table changes.
Tick ==
    /\ now < MaxTime
    /\ wait.state = "polling" => now < wait.next
    /\ \A c \in Callers : ~txn[c].open
    /\ now' = now + 1
    /\ lastRead' = NoRead
    /\ UNCHANGED <<store, nextId, txn, decides, lastDecide, overlapped, wait>>
    /\ UNCHANGED taskVars

\* ------------------------------------------------------------------------
\* approve / cancel
\* ------------------------------------------------------------------------
\* First half of approve()/cancel() in the caller's session: the DELETE and
\* the computation of expires_at.  A DELETE of rows that another open
\* transaction has already deleted waits for that transaction.
DecideBegin(c, approval_type, status) ==
    /\ ~txn[c].open
    /\ \A d \in Callers \ {c} :
          txn[d].open => txn[d].deleted \cap DeleteOld(store, JobId, approval_type) = {}
    /\ txn' = [txn EXCEPT ![c] =
                  [open |-> TRUE, approval_type |-> approval_type, status |-> status,
                   deleted |-> DeleteOld(store, JobId, approval_type),
                   expires_at |-> ExpiresAt(now)]]
    /\ decides' = decides + 1
    /\ overlapped' = [overlapped EXCEPT ![approval_type] =
                         @ \/ \E d \in Callers \ {c} :
                                 txn[d].open /\ txn[d].approval_type = approval_type]
    /\ lastRead' = NoRead
    /\ UNCHANGED <<now, store, nextId, lastDecide, wait>>

\* Second half: session.add, session.commit, then _cleanup_expired.
DecideCommit(c) ==
    /\ txn[c].open
    /\ store' = CleanupExpired(
                   {r \in store : r.id \notin txn[c].deleted}
                     \cup {ApprovalStatus(nextId, JobId, txn[c].approval_type,
                                          txn[c].status, now, txn[c].expires_at)},
                   now)
    /\ nextId' = nextId + 1
    /\ lastDecide' = [lastDecide EXCEPT ![txn[c].approval_type] =
                         [status |-> txn[c].status, at |-> now]]
    /\ txn' = [txn EXCEPT ![c] = NoTxn]
    /\ lastRead' = NoRead
    /\ UNCHANGED <<now, decides, overlapped, wait>>

approve(c, approval_type) == DecideBegin(c, approval_type, STATUS_APPROVED)
cancel(c, approval_type) == DecideBegin(c, approval_type, STATUS_CANCELLED)

\* ------------------------------------------------------------------------
\* wait_for_approval
\* ------------------------------------------------------------------------
BeginWait(approval_type) ==
    [state |-> "polling", approval_type |-> approval_type, start |-> now,
     next |-> now, outcome |-> "none", elapsed |-> 0, row |-> NoRow,
     seen |-> NoDecide, errors |-> 0]

Returned(outcome, r) ==
    [wait EXCEPT !.state = "returned", !.outcome = outcome,
                 !.elapsed = now - wait.start, !.row = r,
                 !.seen = lastDecide[wait.approval_type]]

\* One iteration of the while-loop: the timeout comparison first, then the read.
WaitPoll ==
    /\ wait.state = "polling"
    /\ now = wait.next
    /\ IF TimedOut(now - wait.start, APPROVAL_TIMEOUT)
         THEN wait' = Returned("timedOut", NoRow)
         ELSE \E r \in First(LiveRows(store, JobId, wait.approval_type, now)) :
                 wait' = IF r.status = STATUS_APPROVED THEN Returned("approved", r)
                         ELSE IF r.status = STATUS_CANCELLED THEN Returned("rejected", r)
                         ELSE [wait EXCEPT !.next = now + POLL_INTERVAL]
    /\ UNCHANGED <<now, store, nextId, txn, decides, lastDecide, overlapped, lastRead>>

\* ------------------------------------------------------------------------
\* is_approved
\* ------------------------------------------------------------------------
is_approved(approval_type) ==
    /\ \E r \in First(LiveRows(store, JobId, approval_type, now)) :
          lastRead' = [approval_type |-> approval_type,
                       result |-> IF r = NoRow THEN "None"
                                  ELSE IF r.status = STATUS_APPROVED THEN "True"
                                  ELSE IF r.status = STATUS_CANCELLED THEN "False"
                                  ELSE "None",
                       row |-> r]
    /\ UNCHANGED <<now, store, nextId, txn, decides, lastDecide, overlapped, wait>>

\* ------------------------------------------------------------------------
\* GateSpec: the ApprovalManager under arbitrary callers
\* ------------------------------------------------------------------------
GateInit ==
    /\ now = 0
    /\ store = {}
    /\ nextId = 1
    /\ txn = [c \in Callers |-> NoTxn]
    /\ decides = 0
    /\ lastDecide = [s \in StageSet |-> NoDecide]
    /\ overlapped = [s \in StageSet |-> FALSE]
    /\ wait = IdleWait
    /\ lastRead = NoRead

\* No task has been submitted.
TaskFields(p) ==
    /\ pc = p
    /\ retries = 0
    /\ jobRow = "absent"
    /\ notified = "pending"
    /\ stagesRun = <<>>
    /\ gateResult = [s \in StageSet |-> "none"]
    /\ requested = {}
    /\ clicks = [s \in StageSet |-> 0]
    /\ jobDir = FALSE
    /\ extFailure = FALSE
    /\ result = "none"
    /\ persisted = FALSE
    /\ jobStates = <<"pending">>
    /\ scheduled = <<>>
    /\ sent = <<>>
    /\ batch = IdleBatch
    /\ split = IdleSplit
    /\ audio = IdleAudio
    /\ assembly = IdleAssembly
    /\ timeLimit = FALSE
    /\ dbSegments = NoSegments
    /\ pressed = NoPress
    /\ upstream = NoCall
    /\ tempDir = EmptyTempDir

TaskIdle ==
    /\ variant = "basic"
    /\ voice = FALSE
    /\ TaskFields("idle")

GateWaitStart ==
    /\ wait.state = "idle"
    /\ wait' = BeginWait(GateWaitStage)
    /\ UNCHANGED <<now, store, nextId, txn, decides, lastDecide, overlapped, lastRead>>
    /\ UNCHANGED taskVars

\* The callers are interchangeable: "c2" is the one that calls while "c1" is
\* still inside its call.
SecondCaller(c) == c = "c1" \/ txn["c1"].open

GateApprove ==
    /\ decides < MaxDecides
    /\ \E c \in Callers, s \in GateStages : SecondCaller(c) /\ approve(c, s)
    /\ UNCHANGED taskVars

GateCancel ==
    /\ decides < MaxDecides
    /\ \E c \in Callers, s \in GateStages : SecondCaller(c) /\ cancel(c, s)
    /\ UNCHANGED taskVars

GateCommit ==
    /\ \E c \in Callers : DecideCommit(c)
    /\ UNCHANGED taskVars

GateWaitPoll ==
    /\ WaitPoll
    /\ UNCHANGED taskVars

GateIsApproved ==
    /\ \E s \in GateStages : is_approved(s)
    /\ UNCHANGED taskVars

GateNext ==
    \/ Tick
    \/ GateWaitStart
    \/ GateApprove
    \/ GateCancel
    \/ GateCommit
    \/ GateWaitPoll
    \/ GateIsApproved

\* The manager's initial state, with no task submitted.
GateStart ==
    /\ GateInit
    /\ TaskIdle

GateSpec == GateStart /\ [][GateNext]_vars

\* ------------------------------------------------------------------------
\* Properties of the ApprovalManager, over the behaviours of GateSpec
\* ------------------------------------------------------------------------
WaitKey == wait.approval_type
WaitReturnedAt == wait.start + wait.elapsed
AsRead(status) == IF status = STATUS_APPROVED THEN "True"
                  ELSE IF status = STATUS_CANCELLED THEN "False" ELSE "None"
AsOutcome(status) == IF status = STATUS_APPROVED THEN "approved"
                     ELSE IF status = STATUS_CANCELLED THEN "rejected" ELSE "none"

\* C3: wait_for_approval returns approved if and only if an approve for the
\* key was written strictly before the timeout elapsed (and is the key's
\* latest, unexpired decision when the wait returns).  Stated for keys whose
\* approve/cancel calls never overlapped.
C3_ApprovedIffApproveBeforeTimeout ==
    (wait.state = "returned" /\ ~overlapped[WaitKey]) =>
        (wait.outcome = "approved"
           <=> /\ wait.seen.status = STATUS_APPROVED
               /\ wait.seen.at < wait.start + APPROVAL_TIMEOUT
               /\ WaitReturnedAt < wait.seen.at + APPROVAL_TTL)

C5_LastWriteWins ==
    /\ ( /\ lastRead.result # "unread"
         /\ overlapped[lastRead.approval_type]
         /\ \A c \in Callers : ~txn[c].open
         /\ now < lastDecide[lastRead.approval_type].at + APPROVAL_TTL )
          => lastRead.result = AsRead(lastDecide[lastRead.approval_type].status)
    /\ ( /\ wait.state = "returned"
         /\ wait.outcome \in {"approved", "rejected"}
         /\ overlapped[WaitKey] )
          => wait.outcome = AsOutcome(wait.seen.status)

\* C6: after approve/cancel calls made one after another on a key, the table
\* holds exactly one row for the key, with the status of the last call and
\* expires_at = time of that call + TTL (the row may only be gone once it
\* has expired).
C6_SingleRecordAfterSequentialCalls ==
    \A s \in StageSet :
        (~overlapped[s] /\ lastDecide[s].status # "none") =>
            LET rows == RowsOfKey(store, JobId, s) IN
            /\ \A r \in rows : /\ r.status = lastDecide[s].status
                               /\ r.expires_at = lastDecide[s].at + APPROVAL_TTL
            /\ Cardinality(rows) <= 1
            /\ now <= lastDecide[s].at + APPROVAL_TTL => Cardinality(rows) = 1

C6_Witness ==
    \E s \in GateStages :
        /\ ~overlapped[s]
        /\ nextId = 3
        /\ \A o \in StageSet \ {s} : lastDecide[o].status = "none"
        /\ \A c \in Callers : ~txn[c].open
        /\ Cardinality(RowsOfKey(store, JobId, s)) = 1

\* C7: a row whose expiry has passed is treated as absent: no wait returns
\* approved or rejected from it, and is_approved answers None for a key all of
\* whose rows have expired.
C7_ExpiredRecordIsAbsent ==
    /\ (wait.state = "returned" /\ wait.outcome \in {"approved", "rejected"}) =>
          /\ wait.row # NoRow
          /\ WaitReturnedAt < wait.row.created_at + APPROVAL_TTL
    /\ lastRead.result \in {"True", "False"} =>
          now < lastRead.row.created_at + APPROVAL_TTL
    /\ ( /\ lastRead.result # "unread"
         /\ \A r \in RowsOfKey(store, JobId, lastRead.approval_type) :
               r.created_at + APPROVAL_TTL <= now )
          => lastRead.result = "None"

\* An expired row of the key is still in the table; is_approved has answered
\* None and the waiter has polled past the row and gone back to sleep.
C7_Witness ==
    /\ lastRead.result = "None"
    /\ lastRead.approval_type = WaitKey
    /\ wait.state = "polling"
    /\ wait.next > now
    /\ \E r \in RowsOfKey(store, JobId, WaitKey) :
          r.expires_at <= wait.next - POLL_INTERVAL

\* ------------------------------------------------------------------------
\* The Celery tasks (video_generation.py, video_generation_enhanced.py)
\* ------------------------------------------------------------------------
\* The job's state: generate_video_task only announces it (JobStatus passed
\* to send_status_update); generate_video_enhanced_task keeps it in the
\* status column of the job's row.
JobState == IF variant = "basic" THEN notified
            ELSE IF jobRow = "absent" THEN "pending" ELSE jobRow

\* Stage names as entered in stagesRun, in the order of the task body.
StageOrder == <<"generate_script", "wait_script", "generate_images", "wait_images",
                "animate_videos", "wait_videos", "generate_audio", "assemble_video",
                "send_video", "cleanup">>
StageIndex(e) == CHOOSE i \in 1..Len(StageOrder) : StageOrder[i] = e

WaitEntry(s) == IF s = "script" THEN "wait_script"
                ELSE IF s = "images" THEN "wait_images" ELSE "wait_videos"
AwaitingStatus(s) == IF s = "script" THEN "awaiting_script_approval"
                     ELSE IF s = "images" THEN "awaiting_images_approval"
                     ELSE "awaiting_videos_approval"
ApprovedStatus(s) == IF s = "script" THEN "script_approved"
                     ELSE IF s = "images" THEN "images_approved"
                     ELSE "videos_approved"

\* The stage that follows an approved gate.
AfterGate_skip(s) == IF s = "script" THEN "animate_videos"
                     ELSE IF s = "images" THEN "animate_videos" ELSE "generate_audio"
AfterGate(s) == IF s = "script" THEN "generate_images"
                ELSE IF s = "images" THEN "animate_videos" ELSE "generate_audio"

\* `if not approved:` -- wait_for_approval returns True only for an approval.
Approved_orTimeout(outcome) == outcome # "rejected"
Approved(outcome) == outcome = "approved"

\* INSERT of a job row whose primary key is already in the table fails.
InsertFails_never(row) == FALSE
InsertFails(row) == row # "absent"

\* self.request.retries < self.max_retries
MayRetry(n) == n < max_retries

\* The countdown passed to self.retry by an attempt whose
\* self.request.retries is n: the same for every attempt.
RetryCountdown_growing(n) == RETRY_COUNTDOWN * (n + 2)
RetryCountdown(n) == RETRY_COUNTDOWN

\* int(total_duration) in the arguments of send_final_video: total_duration
\* is a local of the task that is first assigned after this call (and in the
\* except block), so evaluating it raises UnboundLocalError.
TotalDurationBound == FALSE

GateAt(p) == IF p = "script_approval" THEN "script"
             ELSE IF p = "images_approval" THEN "images" ELSE "videos"

\* Task entry up to the creation of the job row.  A failure here is outside
\* the try block: the task raises, nothing is cleaned up or retried.
TaskStart ==
    /\ variant = "basic"
    /\ pc \in {"start", "retry"}
    /\ jobDir' = TRUE
    /\ stagesRun' = Append(stagesRun, "task_start")
    /\ IF InsertFails(jobRow)
         THEN /\ pc' = "done"
              /\ result' = "raised"
              /\ UNCHANGED jobRow
         ELSE /\ pc' = "stage0"
              /\ jobRow' = "processing"
              /\ UNCHANGED result
    /\ UNCHANGED <<pressed, dbSegments, timeLimit, upstream, tempDir, split, audio, assembly, batch, scheduled, sent, variant, voice, retries, notified, gateResult, requested, clicks,
                   extFailure, persisted, jobStates>>
    /\ UNCHANGED gateVars

\* Stage 0 for a voice prompt: send_status_update is called with the keyword
\* custom_message, which it does not accept; the TypeError reaches the
\* task's except block.
TranscribeVoice ==
    /\ variant = "basic"
    /\ pc = "stage0"
    /\ voice
    /\ pc' = "except"
    /\ UNCHANGED <<pressed, dbSegments, timeLimit, upstream, tempDir, split, audio, assembly, batch, scheduled, sent, variant, voice, retries, jobRow, notified, stagesRun, gateResult,
                   requested, clicks, jobDir, extFailure, result, persisted, jobStates>>
    /\ UNCHANGED gateVars

\* A generation stage: announce the status, call the collaborator, which
\* returns or raises.
RunStage(at, status, next) ==
    /\ variant = "basic"
    /\ pc = at
    /\ notified' = status
    /\ jobStates' = Append(jobStates, status)
    /\ stagesRun' = Append(stagesRun, at)
    /\ \E ok \in BOOLEAN :
          /\ pc' = IF ok THEN next ELSE "except"
          /\ extFailure' = (extFailure \/ ~ok)
    /\ UNCHANGED <<pressed, dbSegments, timeLimit, upstream, tempDir, split, audio, assembly, batch, scheduled, sent, variant, voice, retries, jobRow, gateResult, requested, clicks,
                   jobDir, result, persisted>>
    /\ UNCHANGED gateVars

GenerateScript ==
    /\ pc = "stage0"
    /\ ~voice
    /\ variant = "basic"
    /\ notified' = "generating_script"
    /\ jobStates' = Append(jobStates, "generating_script")
    /\ stagesRun' = Append(stagesRun, "generate_script")
    /\ \E ok \in BOOLEAN :
          /\ pc' = IF ok THEN "script_approval" ELSE "except"
          /\ extFailure' = (extFailure \/ ~ok)
    /\ UNCHANGED <<pressed, dbSegments, timeLimit, upstream, tempDir, split, audio, assembly, batch, scheduled, sent, variant, voice, retries, jobRow, gateResult, requested, clicks,
                   jobDir, result, persisted>>
    /\ UNCHANGED gateVars

GenerateImages ==
    /\ pc = "generate_images"
    /\ RunStage("generate_images", "generating_images", "images_approval")

AnimateVideos ==
    /\ pc = "animate_videos"
    /\ RunStage("animate_videos", "animating_videos", "videos_approval")

GenerateAudio ==
    /\ pc = "generate_audio"
    /\ RunStage("generate_audio", "generating_audio", "assemble_video")

AssembleVideo ==
    /\ pc = "assemble_video"
    /\ RunStage("assemble_video", "assembling_video", "send_video")

\* An approval stage up to the call of wait_for_approval: announce the
\* status, send the request with its two buttons, start waiting.
RequestApproval ==
    /\ variant = "basic"
    /\ pc \in {"script_approval", "images_approval", "videos_approval"}
    /\ LET s == GateAt(pc) IN
       /\ notified' = AwaitingStatus(s)
       /\ jobStates' = Append(jobStates, AwaitingStatus(s))
       /\ requested' = requested \cup {s}
       /\ stagesRun' = Append(stagesRun, WaitEntry(s))
       /\ wait' = BeginWait(s)
       /\ pc' = WaitEntry(s)
    /\ UNCHANGED <<pressed, dbSegments, timeLimit, upstream, tempDir, split, audio, assembly, batch, scheduled, sent, variant, voice, retries, jobRow, gateResult, clicks, jobDir,
                   extFailure, result, persisted>>
    /\ UNCHANGED <<now, store, nextId, txn, decides, lastDecide, overlapped, lastRead>>

TaskWaitPoll ==
    /\ pc \in {"wait_script", "wait_images", "wait_videos"}
    /\ WaitPoll
    /\ UNCHANGED taskVars

\* _handle_cancellation begins with one call of file_manager.cleanup_job.
CancellationCleanup_twice == <<"cleanup", "cleanup">>
CancellationCleanup == <<"cleanup">>

\* _handle_cancellation, after cleanup_job: send_status_update(CANCELLED),
\* then send_error_message("approval_timeout").
CancellationMessages == <<"status_cancelled", "error_approval_timeout">>

\* wait_for_approval has returned: `if not approved:` runs
\* _handle_cancellation (cleanup_job, CANCELLED status, message) and returns;
\* otherwise the task announces the approval and goes on.
AfterWait ==
    /\ variant = "basic"
    /\ pc \in {"wait_script", "wait_images", "wait_videos"}
    /\ wait.state = "returned"
    /\ LET s == wait.approval_type IN
       /\ gateResult' = [gateResult EXCEPT ![s] = wait.outcome]
       /\ IF Approved(wait.outcome)
            THEN /\ notified' = ApprovedStatus(s)
                 /\ jobStates' = Append(jobStates, ApprovedStatus(s))
                 /\ pc' = AfterGate(s)
                 /\ UNCHANGED <<jobDir, stagesRun, result, sent>>
            ELSE /\ jobDir' = FALSE
                 /\ stagesRun' = stagesRun \o CancellationCleanup
                 /\ notified' = "cancelled"
                 /\ jobStates' = Append(jobStates, "cancelled")
                 /\ sent' = sent \o CancellationMessages
                 /\ result' = "cancelled"
                 /\ pc' = "done"
    /\ wait' = IdleWait
    /\ UNCHANGED <<pressed, dbSegments, timeLimit, upstream, tempDir, split, audio, assembly, batch, scheduled, variant, voice, retries, jobRow, requested, clicks, extFailure,
                   persisted>>
    /\ UNCHANGED <<now, store, nextId, txn, decides, lastDecide, overlapped, lastRead>>

\* Stage 9: the arguments of send_final_video are evaluated first.
SendFinalVideo ==
    /\ variant = "basic"
    /\ pc = "send_video"
    /\ IF TotalDurationBound
         THEN /\ stagesRun' = Append(Append(stagesRun, "send_video"), "cleanup")
              /\ notified' = "completed"
              /\ jobStates' = Append(jobStates, "completed")
              /\ jobDir' = FALSE
              /\ result' = "completed"
              /\ pc' = "done"
         ELSE /\ pc' = "except"
              /\ UNCHANGED <<stagesRun, notified, jobStates, jobDir, result>>
    /\ UNCHANGED <<pressed, dbSegments, timeLimit, upstream, tempDir, split, audio, assembly, batch, scheduled, sent, variant, voice, retries, jobRow, gateResult, requested, clicks,
                   extFailure, persisted>>
    /\ UNCHANGED gateVars

\* Positions of generate_video_task inside its try block at which it works
\* (OpenAI, Runway, ffmpeg, Telegram); the waits for approval end by
\* themselves after APPROVAL_TIMEOUT.
TryBlock == {"stage0", "generate_images", "animate_videos", "generate_audio",
             "assemble_video", "send_video"}

\* task_soft_time_limit = 3300: once the task has run for 55 minutes the
\* worker raises SoftTimeLimitExceeded, an Exception, in the task while it
\* works; the task's `except Exception` catches it.  (The enhanced task does
\* not live that long.)
SoftTimeLimit ==
    /\ variant = "basic"
    /\ pc \in TryBlock
    /\ ~timeLimit
    /\ timeLimit' = TRUE
    /\ pc' = "except"
    /\ UNCHANGED <<upstream, tempDir, pressed, dbSegments, split, audio, assembly,
                   batch, scheduled, sent, variant, voice, retries, jobRow, notified, stagesRun, gateResult, requested,
                   clicks, jobDir, extFailure, result, persisted, jobStates>>
    /\ UNCHANGED gateVars

\* except Exception: error message, cleanup_job, then self.retry or raise.
HandleError ==
    /\ variant = "basic"
    /\ pc = "except"
    /\ sent' = Append(sent, "error")
    /\ jobDir' = FALSE
    /\ stagesRun' = Append(stagesRun, "cleanup")
    /\ IF MayRetry(retries)
         THEN /\ retries' = retries + 1
              /\ scheduled' = Append(scheduled, RetryCountdown(retries))
              /\ result' = "retry"
              /\ pc' = "retry"
         ELSE /\ result' = "raised"
              /\ pc' = "done"
              /\ UNCHANGED <<retries, scheduled>>
    /\ UNCHANGED <<pressed, dbSegments, timeLimit, upstream, tempDir, split, audio, assembly, batch, variant, voice, jobRow, notified, gateResult, requested, clicks,
                   extFailure, persisted, jobStates>>
    /\ UNCHANGED gateVars

\* generate_video_enhanced_task, entry and stage 0.  The INSERT is inside the
\* try block; when it fails the flush is rolled back and video_job stays
\* outside the table.
EnhancedStart ==
    /\ variant = "enhanced"
    /\ pc \in {"start", "retry"}
    /\ jobDir' = TRUE
    /\ stagesRun' = Append(stagesRun, "task_start")
    /\ IF InsertFails(jobRow)
         THEN /\ persisted' = FALSE
              /\ pc' = "except"
              /\ UNCHANGED <<jobRow, jobStates>>
         ELSE /\ persisted' = TRUE
              /\ jobRow' = "processing"
              /\ jobStates' = Append(jobStates, "processing")
              /\ pc' = "stage1"
    /\ UNCHANGED <<pressed, dbSegments, timeLimit, upstream, tempDir, split, audio, assembly, batch, scheduled, sent, variant, voice, retries, notified, gateResult, requested, clicks,
                   extFailure, result>>
    /\ UNCHANGED gateVars

\* Stage 1 of the enhanced task begins with
\* send_status_update(chat_id, "generating_script", job_id): the status is a
\* str, status.value raises AttributeError before generate_script is called.
EnhancedGenerateScript ==
    /\ variant = "enhanced"
    /\ pc = "stage1"
    /\ pc' = "except"
    /\ UNCHANGED <<pressed, dbSegments, timeLimit, upstream, tempDir, split, audio, assembly, batch, scheduled, sent, variant, voice, retries, jobRow, notified, stagesRun, gateResult,
                   requested, clicks, jobDir, extFailure, result, persisted, jobStates>>
    /\ UNCHANGED gateVars

\* except Exception of the enhanced task: video_job.status = 'failed' and
\* db.commit(), then error message, cleanup_job, self.retry or raise.  After
\* a failed INSERT the session's transaction is inactive and this commit
\* raises out of the handler: no message, no cleanup, no retry.
EnhancedHandleError ==
    /\ variant = "enhanced"
    /\ pc = "except"
    /\ IF persisted
         THEN /\ jobRow' = "failed"
              /\ jobStates' = IF jobRow = "failed" THEN jobStates
                              ELSE Append(jobStates, "failed")
              /\ sent' = Append(sent, "error")
              /\ jobDir' = FALSE
              /\ stagesRun' = Append(stagesRun, "cleanup")
              /\ IF MayRetry(retries)
                   THEN /\ retries' = retries + 1
                        /\ scheduled' = Append(scheduled, RetryCountdown(retries))
                        /\ result' = "retry"
                        /\ pc' = "retry"
                   ELSE /\ result' = "raised"
                        /\ pc' = "done"
                        /\ UNCHANGED <<retries, scheduled>>
         ELSE /\ result' = "raised"
              /\ pc' = "done"
              /\ UNCHANGED <<jobRow, jobStates, jobDir, stagesRun, retries,
                             scheduled, sent>>
    /\ UNCHANGED <<pressed, dbSegments, timeLimit, upstream, tempDir, split, audio, assembly, batch, variant, voice, notified, gateResult, requested, clicks,
                   extFailure, persisted>>
    /\ UNCHANGED gateVars

\* The words of a status string, as separated by "_".
StatusWords(status) ==
    CASE status = "awaiting_script_approval" -> {"awaiting", "script", "approval"}
      [] status = "awaiting_images_approval" -> {"awaiting", "images", "approval"}
      [] status = "awaiting_videos_approval" -> {"awaiting", "videos", "approval"}
      [] status = "script_approved" -> {"script", "approved"}
      [] status = "images_approved" -> {"images", "approved"}
      [] status = "videos_approved" -> {"videos", "approved"}
      [] OTHER -> {status}

\* `word in status.lower()`, for a word without "_": no word of a status
\* contains another one.
InStatus(word, status) == word \in StatusWords(status)

\* _get_approval_type_from_status (handlers_enhanced.py)
GetApprovalTypeFromStatus(status) ==
    IF status = "awaiting_script_approval" THEN "script"
    ELSE IF InStatus("images", status) /\ InStatus("approval", status) THEN "images"
    ELSE IF InStatus("videos", status) /\ InStatus("approval", status) THEN "videos"
    ELSE "None"

\* db.query(VideoSegmentEnhanced).filter_by(job_id=job.id).delete()
DeleteSegments(rows) == IF rows = "stored" THEN "deleted" ELSE rows

\* A press handled: the status the handler read from the job row, the
\* approval type it derived, where the task was, how many stages it had
\* invoked by then, and the number of presses so far.
Press(handler, approval_type) ==
    [handler |-> handler, status |-> jobRow, approval_type |-> approval_type,
     pc |-> pc, stages |-> Len(stagesRun), count |-> pressed.count + 1]

\* The statuses for which handle_reject answers that the job is already over.
RejectRefused == {"completed", "cancelled", "failed"}

\* handle_reject of the enhanced bot on the user's job: cancel the pending
\* approval if the status names one, then set the row's status to
\* 'cancelled'.
handle_reject ==
    /\ variant = "enhanced"
    /\ pressed.count < MaxPresses
    /\ jobRow # "absent"
    /\ jobRow \notin RejectRefused
    /\ LET t == GetApprovalTypeFromStatus(jobRow) IN
       IF t = "None"
         THEN UNCHANGED <<store, nextId, lastDecide>>
         ELSE /\ store' = CleanupExpired(
                             {r \in store : r.id \notin DeleteOld(store, JobId, t)}
                               \cup {ApprovalStatus(nextId, JobId, t, STATUS_CANCELLED,
                                                    now, ExpiresAt(now))}, now)
              /\ nextId' = nextId + 1
              /\ lastDecide' = [lastDecide EXCEPT ![t] =
                                   [status |-> STATUS_CANCELLED, at |-> now]]
    /\ jobRow' = "cancelled"
    /\ jobStates' = Append(jobStates, "cancelled")
    /\ dbSegments' = [dbSegments EXCEPT !.rows = DeleteSegments(@)]
    /\ pressed' = Press("reject", GetApprovalTypeFromStatus(jobRow))
    /\ UNCHANGED <<timeLimit, upstream, tempDir, split, audio, assembly, batch, scheduled, sent, variant, voice, pc, retries, notified, stagesRun, gateResult,
                   requested, clicks, jobDir, extFailure, result, persisted>>
    /\ UNCHANGED <<now, txn, decides, overlapped, wait, lastRead>>

\* Button presses handled so far, over all approval requests.
ClicksHandled == clicks["script"] + clicks["images"] + clicks["videos"]

\* A press of one of the two buttons of an approval request that has been
\* sent: approve() or cancel() on the job's key.
UserApprove ==
    /\ \E s \in requested :
          /\ ClicksHandled < MaxClicks
          /\ approve("c1", s)
          /\ clicks' = [clicks EXCEPT ![s] = @ + 1]
    /\ UNCHANGED <<pressed, dbSegments, timeLimit, upstream, tempDir, split, audio, assembly, batch, scheduled, sent, variant, voice, pc, retries, jobRow, notified, stagesRun, gateResult,
                   requested, jobDir, extFailure, result, persisted, jobStates>>

UserCancel ==
    /\ \E s \in requested :
          /\ ClicksHandled < MaxClicks
          /\ cancel("c1", s)
          /\ clicks' = [clicks EXCEPT ![s] = @ + 1]
    /\ UNCHANGED <<pressed, dbSegments, timeLimit, upstream, tempDir, split, audio, assembly, batch, scheduled, sent, variant, voice, pc, retries, jobRow, notified, stagesRun, gateResult,
                   requested, jobDir, extFailure, result, persisted, jobStates>>

UserCommit ==
    /\ DecideCommit("c1")
    /\ UNCHANGED taskVars

Init ==
    /\ GateInit
    /\ \/ variant = "basic" /\ voice \in BOOLEAN
       \/ variant = "enhanced" /\ voice = FALSE
    /\ TaskFields("start")

Next ==
    \/ Tick
    \/ TaskStart
    \/ TranscribeVoice
    \/ GenerateScript
    \/ RequestApproval
    \/ TaskWaitPoll
    \/ AfterWait
    \/ GenerateImages
    \/ AnimateVideos
    \/ GenerateAudio
    \/ AssembleVideo
    \/ SendFinalVideo
    \/ SoftTimeLimit
    \/ HandleError
    \/ EnhancedStart
    \/ EnhancedGenerateScript
    \/ EnhancedHandleError
    \/ handle_reject
    \/ UserApprove
    \/ UserCancel
    \/ UserCommit

Spec == Init /\ [][Next]_vars

\* ------------------------------------------------------------------------
\* Properties of the tasks, over the behaviours of Spec
\* ------------------------------------------------------------------------
Last(seq) == seq[Len(seq)]
NoDuplicates(seq) == \A i, j \in 1..Len(seq) : i # j => seq[i] # seq[j]
\* The stage that must directly precede a stage inside one run of the task.
Predecessor(e) == IF e = "generate_script" THEN "task_start"
                  ELSE StageOrder[StageIndex(e) - 1]
\* The gate that guards a generation stage.
GateBefore(e) == IF e = "generate_images" THEN "script"
                 ELSE IF e = "animate_videos" THEN "images" ELSE "videos"

\* C1: when the wait at a gate returns rejected or timed out, the task has
\* cancelled the job and stopped: nothing but the cleanup was invoked after
\* that wait, the job is Cancelled and the task has returned, in the same
\* way for both outcomes.
C1_RejectedOrTimedOutCancels ==
    \A s \in StageSet :
        gateResult[s] \in {"rejected", "timedOut"} =>
            /\ pc = "done"
            /\ result = "cancelled"
            /\ JobState = "cancelled"
            /\ retries = 0
            /\ Len(stagesRun) >= 2
            /\ Last(stagesRun) = "cleanup"
            /\ stagesRun[Len(stagesRun) - 1] = WaitEntry(s)

C1_Witness ==
    /\ gateResult["script"] = "approved"
    /\ gateResult["images"] = "timedOut"
    /\ pc = "done"

\* C2: within one run of the task the stages are invoked in the order
\* script generation, script wait, image generation, images wait, animation,
\* videos wait, audio, assembly, delivery, cleanup, none of them out of turn
\* (the cleanup may follow any stage), and image generation, animation and
\* audio generation directly follow an approval wait that returned approved.
C2_StagesInOrder ==
    \A i \in 1..Len(stagesRun) :
        LET e == stagesRun[i] IN
        /\ e \notin {"task_start", "cleanup"} =>
              i > 1 /\ stagesRun[i - 1] = Predecessor(e)
        /\ e = "cleanup" =>
              i > 1 /\ stagesRun[i - 1] # "cleanup"
        /\ e \in {"generate_images", "animate_videos", "generate_audio"} =>
              /\ stagesRun[i - 1] = WaitEntry(GateBefore(e))
              /\ gateResult[GateBefore(e)] = "approved"

C2_Witness ==
    /\ Len(stagesRun) = 10
    /\ stagesRun[9] = "assemble_video"
    /\ stagesRun[10] = "cleanup"

\* C8: a job whose three approvals were granted and none of whose
\* collaborator calls failed completes: the task does not enter its error or
\* retry path and ends with the result "completed".
C8_ApprovedJobCompletes ==
    ((\A s \in StageSet : gateResult[s] = "approved") /\ ~extFailure) =>
        /\ pc \notin {"except", "retry"}
        /\ pc = "done" => result = "completed"

\* C9: Cancelled and Failed are absorbing: no step changes the job's state
\* once it is one of them.
C9_TerminalStatesAbsorbing ==
    [][(JobState \in {"cancelled", "failed"}) => (JobState' = JobState)]_vars

\* C10: the job never returns to a state it has left, and no stage is
\* invoked a second time for the job, retries included.
C10_MonotonicNoReexecution ==
    /\ NoDuplicates(jobStates)
    /\ \A i, j \in 1..Len(stagesRun) :
          (i # j /\ stagesRun[i] \notin {"task_start", "cleanup"})
             => stagesRun[i] # stagesRun[j]

C10_Witness ==
    /\ gateResult["script"] = "approved"
    /\ retries >= 1
    /\ pc = "done"
    /\ result = "raised"

\* ------------------------------------------------------------------------
\* The job state chain (JobStatus, video_job.py)
\* ------------------------------------------------------------------------
JobChain == <<"pending", "generating_script", "awaiting_script_approval",
              "script_approved", "generating_images", "awaiting_images_approval",
              "images_approved", "animating_videos", "awaiting_videos_approval",
              "videos_approved", "generating_audio", "assembling_video",
              "completed">>
ChainSet == {JobChain[i] : i \in 1..Len(JobChain)}
ChainIndex(st) == CHOOSE i \in 1..Len(JobChain) : JobChain[i] = st
AwaitingStates == {"awaiting_script_approval", "awaiting_images_approval",
                   "awaiting_videos_approval"}
TerminalStates == {"completed", "cancelled", "failed"}
\* The row of the enhanced task starts as 'processing', which JobStatus does
\* not have: it is read as the first working state of the chain.
ChainState(st) == IF st = "processing" THEN "generating_script" ELSE st

\* b is a legal successor of a: the next state of the chain, Cancelled from
\* an Awaiting*Approval state, or Failed from a state that is not terminal.
LegalSuccessor(a, b) ==
    LET x == ChainState(a)
        y == ChainState(b)
    IN  \/ /\ x \in ChainSet
           /\ y \in ChainSet
           /\ ChainIndex(y) = ChainIndex(x) + 1
        \/ x \in AwaitingStates /\ y = "cancelled"
        \/ x \notin TerminalStates /\ y = "failed"

\* C11: every change of the job's state goes to the next state of the linear
\* chain, or from an Awaiting*Approval state to Cancelled (a failure may take
\* any state that is not terminal to Failed).
C11_StateChangesFollowChain ==
    [][(JobState' # JobState) => LegalSuccessor(JobState, JobState')]_vars

\* C12: an attempt to move the job to a state that is not a legal successor
\* of its current state is refused and leaves the state unchanged.  The
\* attempts are handle_reject (to Cancelled) and the error handler of the
\* enhanced task (to Failed).
C12_OutOfOrderTransitionRefused ==
    [][ /\ (handle_reject /\ ~LegalSuccessor(JobState, "cancelled"))
             => (JobState' = JobState)
        /\ (EnhancedHandleError /\ persisted /\ ~LegalSuccessor(JobState, "failed"))
             => (JobState' = JobState) ]_vars

\* ------------------------------------------------------------------------
\* Retry, failure, cleanup and notification properties of the tasks
\* ------------------------------------------------------------------------
Count(seq, e) == Cardinality({i \in 1..Len(seq) : seq[i] = e})
\* How many times the task body has been entered for the job.
Executions == Count(stagesRun, "task_start")

\* C13: the task of a job is retried at most 3 times, every retry is
\* scheduled with a countdown of 60 seconds, and the task body is entered at
\* most 4 times for the job.
C13_BoundedRetriesFixedDelay ==
    /\ retries <= 3
    /\ Len(scheduled) = retries
    /\ \A i \in 1..Len(scheduled) : scheduled[i] = 60
    /\ Executions <= 4

C13_Witness ==
    /\ retries = 1
    /\ scheduled = <<60>>
    /\ Executions = 2
    /\ pc = "done"

\* C14: when the task has given up on the job (it raised with no retry
\* scheduled) the job is Failed, and the job is Failed only then.
C14_FailedExactlyWhenRetriesExhausted ==
    /\ (pc = "done" /\ result = "raised") => JobState = "failed"
    /\ JobState = "failed" => (pc = "done" /\ result = "raised")

\* C15: whenever the task has raised or scheduled a retry after the job's
\* working directory was created, the last thing it invoked was the cleanup
\* of that directory.
C15_CleanupBeforeRaiseOrRetry ==
    (pc \in {"done", "retry"} /\ result \in {"raised", "retry"}) =>
        Last(stagesRun) = "cleanup"

\* C16: for a job cancelled because an approval wait timed out, cleanup_job
\* has been invoked exactly once.
C16_TimeoutCleansUpOnce ==
    \A s \in StageSet :
        (gateResult[s] = "timedOut" /\ pc = "done") => Count(stagesRun, "cleanup") = 1

C16_Witness ==
    /\ gateResult["script"] = "timedOut"
    /\ pc = "done"
    /\ result = "cancelled"
    /\ ~jobDir

\* C17: a cancelled job has sent exactly one terminal message to the user,
\* and a job whose task has given up has sent exactly one failure message
\* over all its attempts.
C17_OneTerminalNotification ==
    /\ (pc = "done" /\ result = "cancelled") => Len(sent) = 1
    /\ (pc = "done" /\ result = "raised") => Count(sent, "error") = 1

\* ------------------------------------------------------------------------
\* VideoService.generate_images_only / animate_images_only
\* (video_service.py)
\* ------------------------------------------------------------------------
\* A segment handed to a batch.  has_image: image_path is set, which
\* _animate_segment requires.
Segment(index, has_image) == [index |-> index, has_image |-> has_image]

\* The lists a batch can be called with: segments 0..n-1 in script order.
\* generate_images_only gets script segments, which have no image yet;
\* animate_images_only gets the list generate_images_only returned, in which
\* the failed segments have no image.
BatchInputs(fn) ==
    UNION {{[k \in 1..n |-> Segment(k - 1, h[k])] :
               h \in IF fn = "generate_images_only" THEN {[k \in 1..n |-> FALSE]}
                     ELSE [1..n -> BOOLEAN]} :
              n \in 1..MaxSegments}

\* Status of a segment whose unit of work returned.
ReadyStatus(fn) == IF fn = "generate_images_only" THEN "image_ready"
                   ELSE "video_ready"

\* The calls one unit of work makes to the external generation service.
\* _generate_image_for_segment calls runway_service.generate_image once;
\* _animate_segment raises ValueError before any call when the segment has
\* no image_path, and calls runway_service.animate_image once otherwise.
CapabilityCalls_both(fn, seg) ==
    << [cap |-> "generate_image", index |-> seg.index],
       [cap |-> "animate_image", index |-> seg.index] >>
CapabilityCalls(fn, seg) ==
    IF fn = "generate_images_only"
      THEN << [cap |-> "generate_image", index |-> seg.index] >>
      ELSE IF seg.has_image
             THEN << [cap |-> "animate_image", index |-> seg.index] >>
             ELSE <<>>

\* `len(video_segments) % 5 == 0 and progress_callback`, evaluated in the
\* try clause after the finished segment has been appended; the except
\* clause appends the failed segment and makes no call.
ProgressDue(count, raised) == ~raised /\ count % PROGRESS_EVERY = 0

\* progress_callback as the caller passes it: None, a function that
\* returns, or one that may raise.
Callbacks == {"none", "returns", "raises"}

\* The segment a unit of work leaves in the list.  A finished image unit
\* returns a new VideoSegment with image_path set, a finished animation unit
\* the segment it was given with video_path set; for a unit that raised the
\* except clause appends a new FAILED VideoSegment (image stage) or the
\* given segment marked FAILED (animation stage).
Collected_assetKept(fn, seg, raised) ==
    [index |-> seg.index,
     status |-> IF raised THEN "failed" ELSE ReadyStatus(fn),
     image_path |-> IF fn = "generate_images_only" THEN seg.index > 0 \/ ~raised
                    ELSE seg.has_image,
     video_path |-> fn = "animate_images_only" /\ (seg.index > 0 \/ ~raised)]
Collected(fn, seg, raised) ==
    [index |-> seg.index,
     status |-> IF raised THEN "failed" ELSE ReadyStatus(fn),
     image_path |-> IF fn = "generate_images_only" THEN ~raised ELSE seg.has_image,
     video_path |-> fn = "animate_images_only" /\ ~raised]

\* progress_callback raised inside the try clause, after the finished
\* segment was appended: the except clause appends a segment for the same
\* index.  In the image stage that is a new FAILED VideoSegment; in the
\* animation stage it is the very object appended before, now marked FAILED.
AfterCallbackRaised(fn, collected, seg) ==
    IF fn = "generate_images_only"
      THEN Append(collected, Collected(fn, seg, TRUE))
      ELSE LET marked == [collected[Len(collected)] EXCEPT !.status = "failed"]
           IN  Append([collected EXCEPT ![Len(collected)] = marked], marked)

\* One call of progress_callback(current, total).
ProgressCall(at, current, total) ==
    [at |-> at, current |-> current, total |-> total]

\* video_segments.sort(key=lambda x: x.index): stable insertion by index.
RECURSIVE InsertByIndex(_, _)
InsertByIndex(sorted, e) ==
    IF sorted = <<>> THEN <<e>>
    ELSE IF Head(sorted).index <= e.index
           THEN <<Head(sorted)>> \o InsertByIndex(Tail(sorted), e)
           ELSE <<e>> \o sorted

RECURSIVE SortByIndex(_)
SortByIndex_unsorted(seq) == seq
SortByIndex(seq) ==
    IF seq = <<>> THEN <<>>
    ELSE InsertByIndex(SortByIndex(SubSeq(seq, 1, Len(seq) - 1)), seq[Len(seq)])

\* len(failed_segments) > len(segments) * 0.2.  The product is a double;
\* for every batch size up to 3000 the comparison agrees with the integer
\* comparison 5 * failed > total.
TooManyFailed_orEqual(failed, total) == failed * 10 >= total * 2
TooManyFailed(failed, total) == failed * 10 > total * 2

\* What is left to collect after a unit of work has raised: the except
\* clause records the failure and the loop goes on.
AfterFailure_abort(pending) == {}
AfterFailure(pending) == pending

\* The call: submit one unit of work per segment to the executor.
BatchStart(fn) ==
    /\ batch.state = "idle"
    /\ \E input \in BatchInputs(fn) :
          batch' = [IdleBatch EXCEPT !.state = "running", !.fn = fn,
                                         !.input = input,
                                         !.pending = 1..Len(input)]
    /\ UNCHANGED gateVars
    /\ UNCHANGED <<variant, voice, pc, retries, jobRow, notified, stagesRun,
                   gateResult, requested, clicks, jobDir, extFailure, result,
                   persisted, jobStates, scheduled, sent, timeLimit, upstream, tempDir, dbSegments, pressed,
                   split, audio,
                   assembly>>

generate_images_only ==
    /\ batch.fn = ""
    /\ BatchStart("generate_images_only")

animate_images_only ==
    /\ batch.fn = ""
    /\ BatchStart("animate_images_only")

\* One iteration of `for future in as_completed(...)`: the unit of work of
\* some segment has finished, by returning or by raising.  The executor runs
\* at most max_workers units at a time, in submission order, so the k-th
\* submitted unit cannot finish before k - max_workers others have.
SegmentCompleted ==
    /\ batch.state = "running"
    /\ \E k \in batch.pending, ok \in BOOLEAN, cb_ok \in BOOLEAN :
          LET seg == batch.input[k]
              done == Len(batch.input) - Cardinality(batch.pending)
              raised == \/ ~ok
                        \/ batch.fn = "animate_images_only" /\ ~seg.has_image
              due == /\ ProgressDue(Len(batch.collected) + 1, raised)
                     /\ batch.callback # "none"
              cb_raised == due /\ ~cb_ok
          IN  /\ k <= done + max_workers
              /\ batch.fn = "animate_images_only" /\ ~seg.has_image => ~ok
              /\ ~cb_ok => due /\ batch.callback = "raises"
              /\ batch' =
                   [batch EXCEPT
                      !.pending = IF raised \/ cb_raised THEN AfterFailure(@ \ {k})
                                  ELSE @ \ {k},
                      !.collected =
                         IF cb_raised
                           THEN AfterCallbackRaised(batch.fn,
                                   Append(@, Collected(batch.fn, seg, raised)), seg)
                           ELSE Append(@, Collected(batch.fn, seg, raised)),
                      !.failed = IF raised \/ cb_raised THEN @ + 1 ELSE @,
                      !.raisedIn = IF raised THEN @ \cup {seg.index} ELSE @,
                      !.callback_raised = IF cb_raised THEN @ \cup {seg.index} ELSE @,
                      !.calls = @ \o CapabilityCalls(batch.fn, seg),
                      !.progress =
                         IF due
                           THEN Append(@, ProgressCall("cadence",
                                                       Len(batch.collected) + 1,
                                                       Len(batch.input)))
                           ELSE @]
    /\ UNCHANGED gateVars
    /\ UNCHANGED <<variant, voice, pc, retries, jobRow, notified, stagesRun,
                   gateResult, requested, clicks, jobDir, extFailure, result,
                   persisted, jobStates, scheduled, sent, timeLimit, upstream, tempDir, dbSegments, pressed,
                   split, audio,
                   assembly>>

\* After the loop: sort by index, make the final progress call, then raise
\* if too many segments failed, else return the sorted list.  An exception
\* of the final progress call leaves the method.
BatchFinish ==
    /\ batch.state = "running"
    /\ batch.pending = {}
    /\ \E cb_ok \in BOOLEAN :
          LET final == ProgressCall("final", Len(batch.collected), Len(batch.input))
              called == IF batch.callback = "none" THEN batch.progress
                        ELSE Append(batch.progress, final)
          IN  /\ ~cb_ok => batch.callback = "raises"
              /\ batch' = IF ~cb_ok
                             THEN [batch EXCEPT !.state = "callback_raised",
                                                !.progress = called]
                           ELSE IF TooManyFailed(batch.failed, Len(batch.input))
                             THEN [batch EXCEPT !.state = "raised",
                                                !.progress = called]
                           ELSE [batch EXCEPT !.state = "returned",
                                              !.progress = called,
                                              !.output = SortByIndex(batch.collected)]
    /\ UNCHANGED gateVars
    /\ UNCHANGED <<variant, voice, pc, retries, jobRow, notified, stagesRun,
                   gateResult, requested, clicks, jobDir, extFailure, result,
                   persisted, jobStates, scheduled, sent, timeLimit, upstream, tempDir, dbSegments, pressed,
                   split, audio,
                   assembly>>

BatchInit ==
    /\ GateInit
    /\ TaskIdle

BatchNext ==
    \/ generate_images_only
    \/ animate_images_only
    \/ SegmentCompleted
    \/ BatchFinish

BatchSpec == BatchInit /\ [][BatchNext]_vars

\* ------------------------------------------------------------------------
\* Properties of the batches, over the behaviours of BatchSpec
\* ------------------------------------------------------------------------
BatchOver == batch.state \in {"returned", "raised"}
IndicesOf(seq) == {seq[i].index : i \in 1..Len(seq)}

C19_SegmentFailureDoesNotAbort ==
    BatchOver =>
        /\ Len(batch.collected) = Len(batch.input)
        /\ IndicesOf(batch.collected) = IndicesOf(batch.input)
        /\ batch.failed = Cardinality(batch.raisedIn)
        /\ \A i \in 1..Len(batch.collected) :
              batch.collected[i].status =
                 IF batch.collected[i].index \in batch.raisedIn THEN "failed"
                 ELSE ReadyStatus(batch.fn)

\* The first unit to finish raised and the other segments were still
\* processed.
C19_Witness ==
    /\ BatchOver
    /\ Len(batch.input) >= 3
    /\ batch.collected[1].status = "failed"
    /\ batch.collected[Len(batch.collected)].status # "failed"

\* C20: the returned list is in ascending order of segment index and holds
\* the collected segments, whatever the order in which the units finished.
C20_OutputSortedByIndex ==
    batch.state = "returned" =>
        /\ Len(batch.output) = Len(batch.collected)
        /\ \A i \in 1..Len(batch.output) : batch.output[i].index = i - 1
        /\ \A i \in 1..Len(batch.output) :
              \E j \in 1..Len(batch.collected) : batch.collected[j] = batch.output[i]

\* The units finished in an order that is not the index order.
C20_Witness ==
    /\ batch.state = "returned"
    /\ Len(batch.collected) >= 3
    /\ batch.collected[1].index > batch.collected[2].index

\* Number of calls a batch has made to capability cap for segment index.
CallsMade(cap, index) ==
    Cardinality({i \in 1..Len(batch.calls) :
                    batch.calls[i] = [cap |-> cap, index |-> index]})
StageCapability == IF batch.fn = "generate_images_only" THEN "generate_image"
                   ELSE "animate_image"
OtherCapability == IF batch.fn = "generate_images_only" THEN "animate_image"
                   ELSE "generate_image"

\* C21, as stated: when a batch is over, the capability of its stage has
\* been called exactly once for every input segment and the capability of
\* the other stage never.
C21_OneCapabilityCallPerSegment ==
    BatchOver =>
        \A k \in 1..Len(batch.input) :
            /\ CallsMade(StageCapability, batch.input[k].index) = 1
            /\ CallsMade(OtherCapability, batch.input[k].index) = 0

\* C21, amended: the capability of the stage has been called exactly once
\* for every input segment the stage can work on (every segment of the image
\* stage, every segment that has an image in the animation stage), never for
\* a segment without an image in the animation stage, and the capability of
\* the other stage never.
C21_OneCapabilityCallPerWorkableSegment ==
    BatchOver =>
        \A k \in 1..Len(batch.input) :
            LET seg == batch.input[k]
                workable == batch.fn = "generate_images_only" \/ seg.has_image
            IN  /\ CallsMade(StageCapability, seg.index) =
                      IF workable THEN 1 ELSE 0
                /\ CallsMade(OtherCapability, seg.index) = 0

\* An animation batch over a list in which one segment has an image and
\* another has none.
C21_Witness ==
    /\ BatchOver
    /\ batch.fn = "animate_images_only"
    /\ \E k \in 1..Len(batch.input) : batch.input[k].has_image
    /\ \E k \in 1..Len(batch.input) : ~batch.input[k].has_image

\* The progress calls of one kind made so far.
ProgressCalls(at) ==
    {i \in 1..Len(batch.progress) : batch.progress[i].at = at}

\* C22: the progress callback has been invoked at every completion whose
\* running count is a multiple of 5, only there, and, once the batch is over,
\* exactly once more as the last call, with the final count.
C22_ProgressAtCadenceAndAtEnd ==
    /\ \A c \in 1..Len(batch.collected) :
          c % PROGRESS_EVERY = 0 <=>
             \E i \in ProgressCalls("cadence") :
                batch.progress[i] = ProgressCall("cadence", c, Len(batch.input))
    /\ BatchOver =>
          /\ ProgressCalls("final") = {Len(batch.progress)}
          /\ Last(batch.progress) =
                ProgressCall("final", Len(batch.input), Len(batch.input))

BatchStartWith(fn) ==
    /\ batch.state = "idle"
    /\ \E input \in BatchInputs(fn), cb \in Callbacks :
          batch' = [IdleBatch EXCEPT !.state = "running", !.fn = fn,
                                     !.input = input,
                                     !.pending = 1..Len(input),
                                     !.callback = cb]
    /\ UNCHANGED gateVars
    /\ UNCHANGED <<variant, voice, pc, retries, jobRow, notified, stagesRun,
                   gateResult, requested, clicks, jobDir, extFailure, result,
                   persisted, jobStates, scheduled, sent, timeLimit, upstream, tempDir, dbSegments,
                   pressed, split, audio, assembly>>

GenerateImagesWithCallback ==
    /\ batch.fn = ""
    /\ BatchStartWith("generate_images_only")

AnimateImagesWithCallback ==
    /\ batch.fn = ""
    /\ BatchStartWith("animate_images_only")

CallbackNext ==
    \/ GenerateImagesWithCallback
    \/ AnimateImagesWithCallback
    \/ SegmentCompleted
    \/ BatchFinish

CallbackSpec == BatchInit /\ [][CallbackNext]_vars

\* C33: a batch returns exactly one result per input segment, whatever the
\* units of work and the progress callback do: the call does not end in an
\* exception of the callback, and the indices of a returned list are the
\* input indices, each exactly once.
C33_OneResultPerSegment ==
    /\ batch.state # "callback_raised"
    /\ batch.state = "returned" =>
          /\ Len(batch.output) = Len(batch.input)
          /\ \A k \in 1..Len(batch.input) :
                Cardinality({i \in 1..Len(batch.output) :
                                batch.output[i].index = batch.input[k].index}) = 1

\* ------------------------------------------------------------------------
\* ScriptService.split_script (script_service.py)
\* ------------------------------------------------------------------------
\* ScriptService(target_duration, segment_duration): the defaults of the
\* constructor, which are also Config.TARGET_VIDEO_DURATION and
\* Config.SEGMENT_DURATION, and two smaller services, one whose target is
\* not a multiple of the segment duration.
ServiceParams ==
    { [target_duration |-> TARGET_VIDEO_DURATION,
       segment_duration |-> SEGMENT_DURATION],
      [target_duration |-> 7, segment_duration |-> 2],
      [target_duration |-> 12, segment_duration |-> 3] }

\* A script as re.split(r'[.!?]+', script) sees it: the list of pieces
\* between runs of sentence punctuation (never empty: the empty script gives
\* one empty piece).  Of a piece the code looks at: whether it strips to
\* something (nonblank); whether it holds a newline (sep "newline"), or no
\* newline but a comma and more than 100 characters (sep "comma"); and the
\* number of pieces with text that splitting on that separator gives
\* (parts).  A piece of commas and blanks only has text and no part.
Sentences ==
    {[sep |-> "none", nonblank |-> b, parts |-> IF b THEN 1 ELSE 0] :
        b \in BOOLEAN}
    \cup {[sep |-> "newline", nonblank |-> n > 0, parts |-> n] : n \in 0..MaxParts}
    \cup {[sep |-> "comma", nonblank |-> TRUE, parts |-> n] : n \in 0..MaxParts}

Scripts == UNION {[1..n -> Sentences] : n \in 1..MaxSentences}

\* A chunk of text: part number `part` of sentence number `sentence`
\* (part 0: the whole sentence, stripped).
Chunk(sentence, part) == [sentence |-> sentence, part |-> part]

RECURSIVE Flatten(_)
Flatten(seqs) ==
    IF seqs = <<>> THEN <<>> ELSE Head(seqs) \o Flatten(Tail(seqs))

\* chunks = [s.strip() for s in sentences if s.strip()]
SentenceChunks(script) ==
    Flatten([k \in 1..Len(script) |->
                IF script[k].nonblank THEN <<Chunk(k, 0)>> ELSE <<>>])

\* The second pass, taken when there are fewer than num_segments // 2
\* chunks: split on newlines, else on commas if long, else keep.
FinerChunks(script) ==
    Flatten([k \in 1..Len(script) |->
                IF script[k].sep = "newline" \/ script[k].sep = "comma"
                  THEN [j \in 1..script[k].parts |-> Chunk(k, j)]
                  ELSE IF script[k].nonblank THEN <<Chunk(k, 0)>> ELSE <<>>])

\* _split_into_chunks up to its padding loop.
SplitIntoChunks(script, num_segments) ==
    IF Len(SentenceChunks(script)) < num_segments \div 2
      THEN FinerChunks(script)
      ELSE SentenceChunks(script)

\* chunks[lo:hi] of Python, lo and hi counted from 0 and clipped.
Slice(seq, lo, hi) ==
    SubSeq(seq, lo + 1, IF hi < Len(seq) THEN hi ELSE Len(seq))

\* start_time = i * self.segment_duration
StartTime_drifting(i, segment_duration) == i * (segment_duration + 1)
StartTime(i, segment_duration) == i * segment_duration

\* The body of `for i in range(self.num_segments)`: segment i.
ScriptSegment(i, chunks, num_segments, segment_duration) ==
    LET chunks_per_segment ==
            IF Len(chunks) \div num_segments > 1
              THEN Len(chunks) \div num_segments ELSE 1
        start_time == StartTime(i, segment_duration)
        start_idx == i * chunks_per_segment
        end_idx == IF i < num_segments - 1 THEN start_idx + chunks_per_segment
                   ELSE Len(chunks)
        segment_text == Slice(chunks, start_idx, end_idx)
    IN  [index |-> i,
         text |-> IF segment_text = <<>> /\ chunks # <<>>
                    THEN <<chunks[IF i < Len(chunks) - 1 THEN i + 1
                                  ELSE Len(chunks)]>>
                    ELSE segment_text,
         start_time |-> start_time,
         end_time |-> start_time + segment_duration]

MediaIdle ==
    /\ split.state = "idle"
    /\ audio.state = "idle"
    /\ assembly.state = "idle"

\* The call: strip, split into chunks, up to the padding loop of
\* _split_into_chunks.
split_script ==
    /\ MediaIdle
    /\ \E params \in ServiceParams, script \in Scripts :
          LET num_segments == params.target_duration \div params.segment_duration
          IN  split' = [state |-> "padding",
                        num_segments |-> num_segments,
                        segment_duration |-> params.segment_duration,
                        script |-> script,
                        chunks |-> SplitIntoChunks(script, num_segments),
                        segments |-> <<>>]
    /\ UNCHANGED gateVars
    /\ UNCHANGED <<variant, voice, pc, retries, jobRow, notified, stagesRun,
                   gateResult, requested, clicks, jobDir, extFailure, result,
                   persisted, jobStates, scheduled, sent, timeLimit, upstream, tempDir, dbSegments, pressed,
                   batch, audio,
                   assembly>>

\* One iteration of `while len(chunks) < self.num_segments`:
\* chunks.extend(chunks[:self.num_segments - len(chunks)]).  With no chunk
\* at all the iteration changes nothing and the loop does not end.
PadChunks ==
    /\ split.state = "padding"
    /\ Len(split.chunks) < split.num_segments
    /\ split' = [split EXCEPT
                   !.chunks = @ \o Slice(@, 0, split.num_segments - Len(@))]
    /\ UNCHANGED gateVars
    /\ UNCHANGED <<variant, voice, pc, retries, jobRow, notified, stagesRun,
                   gateResult, requested, clicks, jobDir, extFailure, result,
                   persisted, jobStates, scheduled, sent, timeLimit, upstream, tempDir, dbSegments, pressed,
                   batch, audio,
                   assembly>>

\* The loop over range(num_segments) and the return.
SplitReturn ==
    /\ split.state = "padding"
    /\ Len(split.chunks) >= split.num_segments
    /\ split' = [split EXCEPT
                   !.state = "returned",
                   !.segments = [k \in 1..split.num_segments |->
                                   ScriptSegment(k - 1, split.chunks,
                                                 split.num_segments,
                                                 split.segment_duration)]]
    /\ UNCHANGED gateVars
    /\ UNCHANGED <<variant, voice, pc, retries, jobRow, notified, stagesRun,
                   gateResult, requested, clicks, jobDir, extFailure, result,
                   persisted, jobStates, scheduled, sent, timeLimit, upstream, tempDir, dbSegments, pressed,
                   batch, audio,
                   assembly>>

\* ------------------------------------------------------------------------
\* AudioService.generate_audio / adjust_audio_duration (audio_service.py)
\* ------------------------------------------------------------------------
\* Durations of media files are counted in tenths of a second.
Seconds(s) == s * 10

Abs(x) == IF x < 0 THEN 0 - x ELSE x

\* target_duration, in seconds: Config.TARGET_VIDEO_DURATION, which is what
\* the task passes, and two short targets.
AudioTargets == {2, 4, TARGET_VIDEO_DURATION}

\* What _get_audio_duration can report for the speech the TTS produced:
\* anything up to MaxAudio, and durations around the target.
AudioDurations(target) ==
    0..MaxAudio
    \cup {Seconds(target) + d : d \in {0 - 11, 0 - 10, 0 - 1, 0, 1, 10, 11}}

\* `abs(actual_duration - target_duration) > 1.0` is false.
WithinTolerance_strict(actual, target) == Abs(actual - Seconds(target)) < Seconds(1)
WithinTolerance(actual, target) == ~(Abs(actual - Seconds(target)) > Seconds(1))

\* The remaining factor is the fraction num / den.
\* `while remaining_factor > 2.0`
SpeedUpDue_never(num, den) == FALSE
SpeedUpDue(num, den) == num > 2 * den
\* `while remaining_factor < 0.5`
SlowDownDue(num, den) == 2 * num < den

\* A tempo step as the filter text carries it: six decimals, here counted
\* in millionths.  "atempo=2.0", "atempo=0.5", and f"{remaining_factor:.6f}",
\* which rounds to the nearest millionth.
TempoTwo == 2 * 1000000
TempoHalf == 1000000 \div 2
\* floor(n * 10^digits / d), by long division, one decimal digit at a time.
RECURSIVE Pow10(_)
Pow10(k) == IF k = 0 THEN 1 ELSE 10 * Pow10(k - 1)
RECURSIVE ScaledDiv(_, _, _)
ScaledDiv(n, d, digits) ==
    IF digits = 0 THEN n \div d
    ELSE (n \div d) * Pow10(digits) + ScaledDiv((n % d) * 10, d, digits - 1)
TempoOf(num, den) == (ScaledDiv(2 * num, den, 6) + 1) \div 2

RECURSIVE GCD(_, _)
GCD(a, b) == IF b = 0 THEN a ELSE GCD(b, a % b)

\* Duration of the output of the atempo chain, to the nearest tenth of a
\* second: each step divides the duration, here the fraction n / d, by its
\* tempo.
RECURSIVE AfterTempo(_, _, _)
AfterTempo(n, d, steps) ==
    IF steps = <<>> THEN (2 * n + d) \div (2 * d)
    ELSE IF Len(steps) = 1
           THEN (ScaledDiv(2 * n, d * Head(steps), 6) + 1) \div 2
           ELSE LET g == GCD(1000000, Head(steps))
                IN  AfterTempo(n * (1000000 \div g), d * (Head(steps) \div g),
                               Tail(steps))

\* adjust_audio_duration up to its loops: probe the duration, refuse a
\* duration that is not positive, compute the speed factor.
AdjustStart(fn, actual, target) ==
    IF actual <= 0
      THEN [state |-> "raised", fn |-> fn, actual |-> actual, target |-> target,
            num |-> 0, den |-> 1, steps |-> <<>>, adjusted |-> FALSE,
            out_duration |-> 0]
      ELSE [state |-> "adjusting", fn |-> fn, actual |-> actual,
            target |-> target, num |-> actual, den |-> Seconds(target),
            steps |-> <<>>, adjusted |-> FALSE, out_duration |-> 0]

\* generate_audio: speech from the TTS, probe its duration, adjust it unless
\* it is within a second of the target, in which case the file is renamed.
generate_audio ==
    /\ MediaIdle
    /\ \E target \in AudioTargets, tts_ok \in BOOLEAN :
          \E actual \in IF tts_ok THEN AudioDurations(target) ELSE {0} :
             audio' =
                IF ~tts_ok
                  THEN [state |-> "raised", fn |-> "generate_audio",
                        actual |-> 0, target |-> target, num |-> 0, den |-> 1,
                        steps |-> <<>>, adjusted |-> FALSE, out_duration |-> 0]
                  ELSE IF WithinTolerance(actual, target)
                         THEN [state |-> "returned", fn |-> "generate_audio",
                               actual |-> actual, target |-> target,
                               num |-> 0, den |-> 1, steps |-> <<>>,
                               adjusted |-> FALSE, out_duration |-> actual]
                         ELSE AdjustStart("generate_audio", actual, target)
    /\ UNCHANGED gateVars
    /\ UNCHANGED <<variant, voice, pc, retries, jobRow, notified, stagesRun,
                   gateResult, requested, clicks, jobDir, extFailure, result,
                   persisted, jobStates, scheduled, sent, timeLimit, upstream, tempDir, dbSegments, pressed,
                   batch, split,
                   assembly>>

\* adjust_audio_duration called by itself, on any file.
adjust_audio_duration ==
    /\ MediaIdle
    /\ \E target \in AudioTargets :
          \E actual \in AudioDurations(target) :
             audio' = AdjustStart("adjust_audio_duration", actual, target)
    /\ UNCHANGED gateVars
    /\ UNCHANGED <<variant, voice, pc, retries, jobRow, notified, stagesRun,
                   gateResult, requested, clicks, jobDir, extFailure, result,
                   persisted, jobStates, scheduled, sent, timeLimit, upstream, tempDir, dbSegments, pressed,
                   batch, split,
                   assembly>>

\* One iteration of the first loop: a 2.0 step, remaining_factor /= 2.0.
SpeedUpStep ==
    /\ audio.state = "adjusting"
    /\ SpeedUpDue(audio.num, audio.den)
    /\ audio' = [audio EXCEPT !.steps = Append(@, TempoTwo), !.den = @ * 2]
    /\ UNCHANGED gateVars
    /\ UNCHANGED <<variant, voice, pc, retries, jobRow, notified, stagesRun,
                   gateResult, requested, clicks, jobDir, extFailure, result,
                   persisted, jobStates, scheduled, sent, timeLimit, upstream, tempDir, dbSegments, pressed,
                   batch, split,
                   assembly>>

\* One iteration of the second loop: a 0.5 step, remaining_factor /= 0.5.
SlowDownStep ==
    /\ audio.state = "adjusting"
    /\ ~SpeedUpDue(audio.num, audio.den)
    /\ SlowDownDue(audio.num, audio.den)
    /\ audio' = [audio EXCEPT !.steps = Append(@, TempoHalf), !.num = @ * 2]
    /\ UNCHANGED gateVars
    /\ UNCHANGED <<variant, voice, pc, retries, jobRow, notified, stagesRun,
                   gateResult, requested, clicks, jobDir, extFailure, result,
                   persisted, jobStates, scheduled, sent, timeLimit, upstream, tempDir, dbSegments, pressed,
                   batch, split,
                   assembly>>

\* After the loops: the final step unless the remaining factor is 1.0, then
\* the encoder runs the chain ("anull" when it is empty) and either writes
\* the adjusted file or fails.
AdjustFinish ==
    /\ audio.state = "adjusting"
    /\ ~SpeedUpDue(audio.num, audio.den)
    /\ ~SlowDownDue(audio.num, audio.den)
    /\ \E ffmpeg_ok \in BOOLEAN :
          LET steps == IF audio.num # audio.den
                         THEN Append(audio.steps, TempoOf(audio.num, audio.den))
                         ELSE audio.steps
          IN  audio' = [audio EXCEPT
                          !.steps = steps,
                          !.state = IF ffmpeg_ok THEN "returned" ELSE "raised",
                          !.adjusted = ffmpeg_ok,
                          !.out_duration =
                             IF ffmpeg_ok
                               THEN AfterTempo(audio.actual, 1, steps)
                               ELSE 0]
    /\ UNCHANGED gateVars
    /\ UNCHANGED <<variant, voice, pc, retries, jobRow, notified, stagesRun,
                   gateResult, requested, clicks, jobDir, extFailure, result,
                   persisted, jobStates, scheduled, sent, timeLimit, upstream, tempDir, dbSegments, pressed,
                   batch, split,
                   assembly>>

\* ------------------------------------------------------------------------
\* _assemble_final_video (video_generation.py), FFmpegUtil (ffmpeg.py)
\* ------------------------------------------------------------------------
Max(a, b) == IF a > b THEN a ELSE b
Min(a, b) == IF a < b THEN a ELSE b

\* A segment as animate_images_only returns it.  has_video: video_path is
\* set.  The video asset of segment i is named after i
\* (segment_{i:03d}_video.mp4).
AnimatedSegment(index, has_video) == [index |-> index, has_video |-> has_video]

\* The lists _assemble_final_video is called with: what animate_images_only
\* returned, which is in index order and holds at most 20% failed segments,
\* for short lists and for the full list of the pipeline without failure.
AssemblyInputs ==
    UNION {{[k \in 1..n |-> AnimatedSegment(k - 1, h[k])] :
               h \in {f \in [1..n -> BOOLEAN] :
                         ~TooManyFailed(Cardinality({k \in 1..n : ~f[k]}), n)}} :
              n \in 1..MaxSegments}
    \cup {[k \in 1..NUM_SEGMENTS |-> AnimatedSegment(k - 1, TRUE)]}

\* os.path.getsize(...) / (1024 * 1024) of an encoder output, in MB.
FileSizes == {MAX_VIDEO_SIZE_MB - 1, MAX_VIDEO_SIZE_MB, MAX_VIDEO_SIZE_MB + 1}

\* `if seg.video_path`
HasVideoPath_always(seg) == TRUE
HasVideoPath(seg) == seg.has_video

\* [seg.video_path for seg in sorted(video_segments, key=lambda x: x.index)
\*  if seg.video_path]
VideoPaths(video_segments) ==
    LET sorted == SortByIndex(video_segments)
    IN  [i \in 1..Len(SelectSeq(sorted, HasVideoPath)) |->
            SelectSeq(sorted, HasVideoPath)[i].index]

\* concatenate_videos with `-c copy`: the parts one after the other, each
\* segment video lasting SEGMENT_DURATION.
ConcatenatedDuration(video_paths) == Len(video_paths) * Seconds(SEGMENT_DURATION)

\* add_audio with `-shortest`: the output ends when the shorter stream ends.
MuxedDuration(video_duration, audio_duration) == Min(video_duration, audio_duration)

\* target_bitrate = int((max_size_mb * 8192) / duration) - 128, then
\* max(target_bitrate, 500); kbps, the duration in tenths of a second.
TargetBitrate_unclamped(max_size_mb, duration) ==
    ((max_size_mb * 8192 * 10) \div duration) - 128
TargetBitrate(max_size_mb, duration) ==
    Max(((max_size_mb * 8192 * 10) \div duration) - 128, 500)

\* What compress_video does with a file the encoder has produced, or
\* raises: nothing is compared with max_size_mb after the encoder has run.
AfterCompression(compressed_size_mb, max_size_mb) == "returned"

Unassembled(fn, input) ==
    [state |-> "raised", fn |-> fn, input |-> input, video_paths |-> <<>>,
     max_size_mb |-> MAX_VIDEO_SIZE_MB, duration |-> 0, file_size_mb |-> 0,
     compressions |-> 0, target_bitrate |-> 0,
     output |-> [asset |-> "", size_mb |-> 0, duration |-> 0]]

\* _assemble_final_video, called once generate_audio has returned the
\* voiceover for the target duration of the pipeline.
assemble_final_video ==
    /\ split.state = "idle"
    /\ assembly.state = "idle"
    /\ audio.state = "returned"
    /\ audio.fn = "generate_audio"
    /\ audio.target = TARGET_VIDEO_DURATION
    /\ \E input \in AssemblyInputs, encoder_ok \in BOOLEAN,
          file_size_mb \in FileSizes, compressed_size_mb \in FileSizes :
          LET fn == "_assemble_final_video"
              video_paths == VideoPaths(input)
              duration == MuxedDuration(ConcatenatedDuration(video_paths),
                                        audio.out_duration)
              assembled == [Unassembled(fn, input) EXCEPT
                              !.video_paths = video_paths,
                              !.duration = duration,
                              !.file_size_mb = file_size_mb]
          IN  assembly' =
                IF video_paths = <<>> \/ ~encoder_ok
                  THEN [Unassembled(fn, input) EXCEPT !.video_paths = video_paths]
                  ELSE IF file_size_mb > MAX_VIDEO_SIZE_MB
                         THEN [assembled EXCEPT
                                 !.state = AfterCompression(compressed_size_mb,
                                                            MAX_VIDEO_SIZE_MB),
                                 !.compressions = 1,
                                 !.target_bitrate =
                                    TargetBitrate(MAX_VIDEO_SIZE_MB, duration),
                                 !.output =
                                    [asset |-> "final_video_compressed.mp4",
                                     size_mb |-> compressed_size_mb,
                                     duration |-> duration]]
                         ELSE [assembled EXCEPT
                                 !.state = "returned",
                                 !.output = [asset |-> "final_video.mp4",
                                             size_mb |-> file_size_mb,
                                             duration |-> duration]]
    /\ UNCHANGED gateVars
    /\ UNCHANGED <<variant, voice, pc, retries, jobRow, notified, stagesRun,
                   gateResult, requested, clicks, jobDir, extFailure, result,
                   persisted, jobStates, scheduled, sent, timeLimit, upstream, tempDir, dbSegments, pressed,
                   batch, split,
                   audio>>

\* max_size_mb as compress_video is given it: Config.MAX_VIDEO_SIZE_MB by
\* the pipeline, and small limits.
SizeLimits == 1..MaxSizeLimit \cup {MAX_VIDEO_SIZE_MB}

\* What get_video_duration can report, in tenths of a second.
ProbedDurations == 0..MaxProbed \cup {Seconds(TARGET_VIDEO_DURATION)}

\* compress_video called by itself: probe the duration, refuse one that is
\* not positive, compute the bitrate, run the encoder.
compress_video ==
    /\ MediaIdle
    /\ \E max_size_mb \in SizeLimits, duration \in ProbedDurations,
          encoder_ok \in BOOLEAN :
        \E compressed_size_mb \in {max_size_mb, max_size_mb + 1} :
          LET fn == "compress_video"
          IN  assembly' =
                IF duration <= 0 \/ ~encoder_ok
                  THEN [Unassembled(fn, <<>>) EXCEPT !.max_size_mb = max_size_mb]
                  ELSE [Unassembled(fn, <<>>) EXCEPT
                          !.state = AfterCompression(compressed_size_mb,
                                                     max_size_mb),
                          !.max_size_mb = max_size_mb,
                          !.duration = duration,
                          !.compressions = 1,
                          !.target_bitrate = TargetBitrate(max_size_mb, duration),
                          !.output = [asset |-> "output_path",
                                      size_mb |-> compressed_size_mb,
                                      duration |-> duration]]
    /\ UNCHANGED gateVars
    /\ UNCHANGED <<variant, voice, pc, retries, jobRow, notified, stagesRun,
                   gateResult, requested, clicks, jobDir, extFailure, result,
                   persisted, jobStates, scheduled, sent, timeLimit, upstream, tempDir, dbSegments, pressed,
                   batch, split,
                   audio>>

MediaInit ==
    /\ GateInit
    /\ TaskIdle

MediaNext ==
    \/ split_script
    \/ PadChunks
    \/ SplitReturn
    \/ generate_audio
    \/ adjust_audio_duration
    \/ SpeedUpStep
    \/ SlowDownStep
    \/ AdjustFinish
    \/ assemble_final_video
    \/ compress_video

MediaSpec == MediaInit /\ [][MediaNext]_vars

\* ------------------------------------------------------------------------
\* Properties of the media functions, over the behaviours of MediaSpec
\* ------------------------------------------------------------------------
\* C23: the list split_script returns has exactly N segments, their index
\* values are 0..N-1 in order, every segment lasts D, the first starts at 0,
\* each next one starts where the one before ends, and the last ends at N*D.
C23_SegmentsTileTheTimeline ==
    split.state = "returned" =>
        LET N == split.num_segments
            D == split.segment_duration
            segs == split.segments
        IN  /\ Len(segs) = N
            /\ \A k \in 1..N : segs[k].index = k - 1
            /\ \A k \in 1..N : segs[k].end_time - segs[k].start_time = D
            /\ N > 0 => segs[1].start_time = 0 /\ segs[N].end_time = N * D
            /\ \A k \in 1..(N - 1) : segs[k].end_time = segs[k + 1].start_time

\* The default service has split a script of fewer chunks than segments.
C23_Witness ==
    /\ split.state = "returned"
    /\ split.num_segments = 48
    /\ split.segment_duration = 5
    /\ Len(SplitIntoChunks(split.script, split.num_segments)) < 48
    /\ split.segments[48].end_time = 240

\* An adjustment has been worked out: the tempo steps are final.
Adjusted == audio.state \in {"returned", "raised"} /\ audio.num > 0

RECURSIVE Pow2(_)
Pow2(k) == IF k = 0 THEN 1 ELSE 2 * Pow2(k - 1)

\* step is within a millionth of the fraction num / den.
IsRounded(step, num, den) ==
    /\ ScaledDiv(num, den, 6) <= step
    /\ step <= ScaledDiv(num, den, 6) + 1

\* C26: the tempo steps of an adjustment of a file of duration A to the
\* target T.  Every step lies in [0.5, 2.0].  If A/T > 2 the list is k
\* steps of 2.0, k the least number of halvings that brings the factor to
\* 2.0 or below, followed by one step at that remaining factor; if A/T < 0.5
\* it is k steps of 0.5, k the least number of doublings that brings the
\* factor to 0.5 or above, followed by one step at the remaining factor
\* unless that is 1.0; otherwise it is the single step A/T, or nothing when
\* A = T.  A = 10 s and T = 4 s give 2.0 then 1.25.
C26_TempoStepsChainWithinRange ==
    Adjusted =>
        LET A == audio.actual
            T == Seconds(audio.target)
            steps == audio.steps
            m == Len(steps)
        IN  /\ \A i \in 1..m : TempoHalf <= steps[i] /\ steps[i] <= TempoTwo
            /\ A > 2 * T =>
                  /\ m >= 2
                  /\ \A i \in 1..(m - 1) : steps[i] = TempoTwo
                  /\ A <= T * Pow2(m) /\ A > T * Pow2(m - 1)
                  /\ IsRounded(steps[m], A, T * Pow2(m - 1))
            /\ 2 * A < T =>
                  \E k \in 1..12 :
                      /\ 2 * A * Pow2(k) >= T /\ 2 * A * Pow2(k - 1) < T
                      /\ \A i \in 1..k : steps[i] = TempoHalf
                      /\ IF A * Pow2(k) = T THEN m = k
                         ELSE m = k + 1 /\ IsRounded(steps[m], A * Pow2(k), T)
            /\ (A <= 2 * T /\ 2 * A >= T) =>
                  IF A = T THEN steps = <<>>
                  ELSE m = 1 /\ IsRounded(steps[1], A, T)
            /\ (A = Seconds(10) /\ audio.target = 4) =>
                  steps = <<2000000, 1250000>>

\* The adjustment of a 10 s file to 4 s has been worked out.
C26_Witness ==
    /\ Adjusted
    /\ audio.actual = Seconds(10)
    /\ audio.target = 4
    /\ Len(audio.steps) = 2

\* C27: generate_audio hands the speech on as it is, with no tempo step,
\* exactly when its duration is within one second of the target; 3.9 s for
\* a target of 4 s is handed on as it is.
C27_PassThroughIffWithinOneSecond ==
    (audio.fn = "generate_audio" /\ audio.state = "returned") =>
        LET within == Abs(audio.actual - Seconds(audio.target)) <= Seconds(1)
        IN  /\ within <=> ~audio.adjusted
            /\ within <=> audio.steps = <<>>
            /\ within => audio.out_duration = audio.actual
            /\ (audio.actual = 39 /\ audio.target = 4) => ~audio.adjusted

\* A speech exactly one second longer than its target was handed on as it
\* is.
C27_Witness ==
    /\ audio.fn = "generate_audio"
    /\ audio.state = "returned"
    /\ audio.actual = Seconds(audio.target) + Seconds(1)
    /\ ~audio.adjusted

\* The video paths have been worked out by _assemble_final_video.
Assembling == assembly.fn = "_assemble_final_video" /\ assembly.state # "idle"

\* C24: the concatenation input lists video assets in strictly ascending
\* order of segment index, and the assets listed are exactly those of the
\* input segments that have one; so each is listed once and the segments
\* without a video asset, and only they, are left out.
C24_ConcatInputSortedVideosOnly ==
    Assembling =>
        /\ \A i \in 1..(Len(assembly.video_paths) - 1) :
              assembly.video_paths[i] < assembly.video_paths[i + 1]
        /\ {assembly.video_paths[i] : i \in 1..Len(assembly.video_paths)} =
              {assembly.input[k].index :
                  k \in {j \in 1..Len(assembly.input) : assembly.input[j].has_video}}

\* A list in which a segment in the middle has no video asset has been
\* assembled.
C24_Witness ==
    /\ Assembling
    /\ assembly.state = "returned"
    /\ \E k \in 2..(Len(assembly.input) - 1) : ~assembly.input[k].has_video
    /\ Len(assembly.video_paths) = Len(assembly.input) - 1

\* C25: compression is attempted at most once, and a compressed result
\* that still exceeds the maximum size is not returned: the call ends in
\* an error.
C25_OversizeAfterCompressionIsFatal ==
    (Assembling /\ assembly.compressions > 0) =>
        /\ assembly.compressions = 1
        /\ assembly.output.size_mb > assembly.max_size_mb =>
              assembly.state = "raised"

C29_FinalDurationIsNTimesD ==
    (Assembling /\ assembly.state = "returned"
       /\ \A k \in 1..Len(assembly.input) : assembly.input[k].has_video) =>
        assembly.output.duration =
           Seconds(Len(assembly.input) * SEGMENT_DURATION)

\* ------------------------------------------------------------------------
\* The runtime ceiling of the task, over the behaviours of Spec
\* ------------------------------------------------------------------------
\* C30: once the task has exceeded its runtime ceiling the job is not
\* continued and not started again (the task is handling the error or is
\* over, no retry is pending), and when the task is over the job is Failed.
C30_TimeLimitFailsTheJob ==
    timeLimit =>
        /\ pc \in {"except", "done"}
        /\ pc = "done" => JobState = "failed"

\* ------------------------------------------------------------------------
\* Termination of split_script
\* ------------------------------------------------------------------------
\* The interpreter keeps executing a call that has begun: an iteration of
\* the padding loop that changes the list is eventually made, and so is the
\* return once the loop has ended.
MediaFairSpec ==
    MediaInit /\ [][MediaNext]_vars /\ WF_vars(PadChunks) /\ WF_vars(SplitReturn)

\* C36: split_script terminates for every script, the empty, blank and
\* punctuation-only ones included: a call that has begun returns its
\* segments.
C36_SplitScriptTerminates ==
    (split.state = "padding") ~> (split.state = "returned")

\* C35: an attempt started by a retry gets past the creation of the job
\* record: it does not end by raising right after its start, with no stage
\* invoked.
C35_RetriedAttemptPassesJobCreation ==
    (retries >= 1 /\ pc = "done" /\ result = "raised")
        => Last(stagesRun) # "task_start"

\* ------------------------------------------------------------------------
\* HandlerSpec: the persistent-keyboard handlers (handlers_enhanced.py) and
\* the body of generate_video_enhanced_task from an approval gate on
\* ------------------------------------------------------------------------
\* The status of the job row while the task waits at a gate: the last one
\* the task wrote before it called wait_for_approval(job_id, s).
StatusAtGate(s) == IF s = "script" THEN "awaiting_script_approval"
                   ELSE IF s = "images" THEN "script_approved"
                   ELSE "images_approved"

\* The segment rows and the db_segments list on arrival at a gate: the rows
\* are written in stage 3 and queried in stage 4.
SegmentsAtGate(s) == IF s = "script" THEN NoSegments
                     ELSE [rows |-> "stored", loaded |-> "loaded"]

\* The position that follows an approved gate in the enhanced task.
EnhancedAfterGate(s) == IF s = "script" THEN "split_script"
                        ELSE IF s = "images" THEN "animate_videos"
                        ELSE "generate_audio"

\* An attribute of a db_segments object is read after a commit: the object
\* is refreshed from its row, which raises when the row has been deleted.
SegmentsStale == dbSegments.loaded = "loaded" /\ dbSegments.rows = "deleted"

\* The task has arrived at one of its three gates and calls
\* wait_for_approval; the clock is read from that moment on.
EnhancedAtGate ==
    /\ variant = "enhanced"
    /\ pc = "idle"
    /\ now = 0
    /\ \E s \in StageSet :
          /\ jobRow' = StatusAtGate(s)
          /\ jobStates' = Append(jobStates, StatusAtGate(s))
          /\ dbSegments' = SegmentsAtGate(s)
          /\ requested' = {s}
          /\ wait' = BeginWait(s)
          /\ pc' = WaitEntry(s)
    /\ jobDir' = TRUE
    /\ persisted' = TRUE
    /\ UNCHANGED <<variant, voice, retries, notified, stagesRun, gateResult, clicks,
                   extFailure, result, scheduled, sent, batch, split, audio,
                   assembly, timeLimit, upstream, tempDir, pressed>>
    /\ UNCHANGED <<now, store, nextId, txn, decides, lastDecide, overlapped, lastRead>>

\* `if not approved:` of the enhanced task: status 'cancelled', commit,
\* _handle_cancellation (cleanup_job, one message), return; otherwise the
\* approved status is committed and the task goes on.
EnhancedAfterWait ==
    /\ variant = "enhanced"
    /\ pc \in {"wait_script", "wait_images", "wait_videos"}
    /\ wait.state = "returned"
    /\ LET s == wait.approval_type IN
       /\ gateResult' = [gateResult EXCEPT ![s] = wait.outcome]
       /\ IF Approved(wait.outcome)
            THEN /\ jobRow' = ApprovedStatus(s)
                 /\ jobStates' = Append(jobStates, ApprovedStatus(s))
                 /\ pc' = EnhancedAfterGate(s)
                 /\ UNCHANGED <<jobDir, stagesRun, result, sent>>
            ELSE /\ jobRow' = "cancelled"
                 /\ jobStates' = Append(jobStates, "cancelled")
                 /\ jobDir' = FALSE
                 /\ stagesRun' = Append(stagesRun, "cleanup")
                 /\ sent' = Append(sent, "cancelled_at_stage")
                 /\ result' = "cancelled"
                 /\ pc' = "done"
    /\ wait' = IdleWait
    /\ UNCHANGED <<variant, voice, retries, notified, requested, clicks, extFailure,
                   persisted, scheduled, batch, split, audio, assembly, timeLimit, upstream, tempDir,
                   dbSegments, pressed>>
    /\ UNCHANGED <<now, store, nextId, txn, decides, lastDecide, overlapped, lastRead>>

\* Stage 3: split_script and one row per segment, committed.
EnhancedSplit ==
    /\ variant = "enhanced"
    /\ pc = "split_script"
    /\ stagesRun' = Append(stagesRun, "split_script")
    /\ dbSegments' = [dbSegments EXCEPT !.rows = "stored"]
    /\ pc' = "generate_images"
    /\ UNCHANGED <<variant, voice, retries, jobRow, notified, gateResult, requested,
                   clicks, jobDir, extFailure, result, persisted, jobStates,
                   scheduled, sent, batch, split, audio, assembly, timeLimit, upstream, tempDir,
                   pressed>>
    /\ UNCHANGED gateVars

\* Stages 4 to 6: db_segments is queried, an image prompt and an image are
\* generated for each of its elements, the images request is sent and the
\* task waits.  Without rows the list is empty and nothing is generated.
EnhancedImages ==
    /\ variant = "enhanced"
    /\ pc = "generate_images"
    /\ IF dbSegments.rows = "stored"
         THEN /\ dbSegments' = [dbSegments EXCEPT !.loaded = "loaded"]
              /\ stagesRun' = Append(stagesRun, "generate_images")
              /\ \E ok \in BOOLEAN :
                    /\ extFailure' = (extFailure \/ ~ok)
                    /\ pc' = IF ok THEN "wait_images" ELSE "except"
                    /\ wait' = IF ok THEN BeginWait("images") ELSE wait
                    /\ requested' = IF ok THEN requested \cup {"images"} ELSE requested
         ELSE /\ dbSegments' = [dbSegments EXCEPT !.loaded = "empty"]
              /\ pc' = "wait_images"
              /\ wait' = BeginWait("images")
              /\ requested' = requested \cup {"images"}
              /\ UNCHANGED <<stagesRun, extFailure>>
    /\ UNCHANGED <<variant, voice, retries, jobRow, notified, gateResult, clicks,
                   jobDir, result, persisted, jobStates, scheduled, sent, batch,
                   split, audio, assembly, timeLimit, upstream, tempDir, pressed>>
    /\ UNCHANGED <<now, store, nextId, txn, decides, lastDecide, overlapped, lastRead>>

\* Stages 7 to 9: an animation prompt and a video for each element of
\* db_segments, then the videos request and the wait.
EnhancedAnimate ==
    /\ variant = "enhanced"
    /\ pc = "animate_videos"
    /\ IF SegmentsStale
         THEN /\ pc' = "except"
              /\ UNCHANGED <<stagesRun, extFailure, wait, requested>>
         ELSE /\ stagesRun' = IF dbSegments.loaded = "empty" THEN stagesRun
                              ELSE Append(stagesRun, "animate_videos")
              /\ \E ok \in BOOLEAN :
                    /\ dbSegments.loaded = "empty" => ok
                    /\ extFailure' = (extFailure \/ ~ok)
                    /\ pc' = IF ok THEN "wait_videos" ELSE "except"
                    /\ wait' = IF ok THEN BeginWait("videos") ELSE wait
                    /\ requested' = IF ok THEN requested \cup {"videos"} ELSE requested
    /\ UNCHANGED <<variant, voice, retries, jobRow, notified, gateResult, clicks,
                   jobDir, result, persisted, jobStates, scheduled, sent, batch,
                   split, audio, assembly, timeLimit, upstream, tempDir, dbSegments, pressed>>
    /\ UNCHANGED <<now, store, nextId, txn, decides, lastDecide, overlapped, lastRead>>

\* Stage 10: generate_audio; no segment is read.
EnhancedAudio ==
    /\ variant = "enhanced"
    /\ pc = "generate_audio"
    /\ stagesRun' = Append(stagesRun, "generate_audio")
    /\ \E ok \in BOOLEAN :
          /\ extFailure' = (extFailure \/ ~ok)
          /\ pc' = IF ok THEN "assemble_video" ELSE "except"
    /\ UNCHANGED <<variant, voice, retries, jobRow, notified, gateResult, requested,
                   clicks, jobDir, result, persisted, jobStates, scheduled, sent,
                   batch, split, audio, assembly, timeLimit, upstream, tempDir, dbSegments, pressed>>
    /\ UNCHANGED gateVars

\* Stages 11 to 13: the video paths are read from db_segments, the video is
\* assembled, status 'completed' is committed, the video is sent and the job
\* directory removed.  An empty list of paths makes the concatenation fail.
EnhancedAssemble ==
    /\ variant = "enhanced"
    /\ pc = "assemble_video"
    /\ IF SegmentsStale
         THEN /\ pc' = "except"
              /\ UNCHANGED <<stagesRun, extFailure, jobRow, jobStates, jobDir, result>>
         ELSE \E ok \in BOOLEAN :
                 /\ dbSegments.loaded = "empty" => ~ok
                 /\ extFailure' = (extFailure \/ ~ok)
                 /\ IF ok
                      THEN /\ stagesRun' = stagesRun \o <<"assemble_video", "send_video", "cleanup">>
                           /\ jobRow' = "completed"
                           /\ jobStates' = Append(jobStates, "completed")
                           /\ jobDir' = FALSE
                           /\ result' = "completed"
                           /\ pc' = "done"
                      ELSE /\ stagesRun' = Append(stagesRun, "assemble_video")
                           /\ pc' = "except"
                           /\ UNCHANGED <<jobRow, jobStates, jobDir, result>>
    /\ UNCHANGED <<variant, voice, retries, notified, gateResult, requested, clicks,
                   persisted, scheduled, sent, batch, split, audio, assembly,
                   timeLimit, upstream, tempDir, dbSegments, pressed>>
    /\ UNCHANGED gateVars

\* handle_approve of the enhanced bot on the user's job: approve() on the
\* key that the row's status names; without one, only a reply.
handle_approve ==
    /\ variant = "enhanced"
    /\ pressed.count < MaxPresses
    /\ jobRow # "absent"
    /\ LET t == GetApprovalTypeFromStatus(jobRow) IN
       /\ pressed' = Press("approve", t)
       /\ IF t = "None"
            THEN UNCHANGED <<store, nextId, lastDecide>>
            ELSE /\ store' = CleanupExpired(
                                {r \in store : r.id \notin DeleteOld(store, JobId, t)}
                                  \cup {ApprovalStatus(nextId, JobId, t, STATUS_APPROVED,
                                                       now, ExpiresAt(now))}, now)
                 /\ nextId' = nextId + 1
                 /\ lastDecide' = [lastDecide EXCEPT ![t] =
                                      [status |-> STATUS_APPROVED, at |-> now]]
    /\ UNCHANGED <<variant, voice, pc, retries, jobRow, notified, stagesRun,
                   gateResult, requested, clicks, jobDir, extFailure, result, persisted,
                   jobStates, scheduled, sent, batch, split, audio, assembly,
                   timeLimit, upstream, tempDir, dbSegments>>
    /\ UNCHANGED <<now, txn, decides, overlapped, wait, lastRead>>

\* The inline approve button of the request the task is waiting on, pressed
\* once: approve() on that request's key.
InlineApprove ==
    /\ variant = "enhanced"
    /\ wait.state = "polling"
    /\ LET t == wait.approval_type IN
       /\ clicks[t] = 0
       /\ store' = CleanupExpired(
                      {r \in store : r.id \notin DeleteOld(store, JobId, t)}
                        \cup {ApprovalStatus(nextId, JobId, t, STATUS_APPROVED,
                                             now, ExpiresAt(now))}, now)
       /\ nextId' = nextId + 1
       /\ lastDecide' = [lastDecide EXCEPT ![t] =
                            [status |-> STATUS_APPROVED, at |-> now]]
       /\ clicks' = [clicks EXCEPT ![t] = @ + 1]
    /\ UNCHANGED <<variant, voice, pc, retries, jobRow, notified, stagesRun,
                   gateResult, requested, jobDir, extFailure, result, persisted,
                   jobStates, scheduled, sent, batch, split, audio, assembly,
                   timeLimit, upstream, tempDir, dbSegments, pressed>>
    /\ UNCHANGED <<now, txn, decides, overlapped, wait, lastRead>>

\* No task has been submitted to the enhanced bot.
HandlerInit ==
    /\ GateInit
    /\ variant = "enhanced"
    /\ voice = FALSE
    /\ TaskFields("idle")

HandlerNext ==
    \/ Tick
    \/ EnhancedAtGate
    \/ TaskWaitPoll
    \/ EnhancedAfterWait
    \/ EnhancedSplit
    \/ EnhancedImages
    \/ EnhancedAnimate
    \/ EnhancedAudio
    \/ EnhancedAssemble
    \/ EnhancedHandleError
    \/ handle_approve
    \/ handle_reject
    \/ InlineApprove

HandlerSpec == HandlerInit /\ [][HandlerNext]_vars

\* ------------------------------------------------------------------------
\* Properties of the handlers, over the behaviours of HandlerSpec
\* ------------------------------------------------------------------------
\* The gate whose wait is at position p.
GateOfWait(p) == IF p = "wait_script" THEN "script"
                 ELSE IF p = "wait_images" THEN "images" ELSE "videos"

ProducingStages == {"generate_script", "generate_images", "animate_videos",
                    "generate_audio", "assemble_video", "send_video"}

AfterReadError_rejected(w) ==
    [w EXCEPT !.state = "returned", !.outcome = "rejected",
              !.elapsed = now - w.start, !.errors = @ + 1]
AfterReadError(w) ==
    [w EXCEPT !.next = now + POLL_INTERVAL, !.errors = @ + 1]

\* One iteration of the while-loop whose query raises: the timeout comparison
\* has been passed, nothing is read.
WaitPollReadError ==
    /\ wait.state = "polling"
    /\ now = wait.next
    /\ ~TimedOut(now - wait.start, APPROVAL_TIMEOUT)
    /\ wait' = AfterReadError(wait)
    /\ UNCHANGED <<now, store, nextId, txn, decides, lastDecide, overlapped, lastRead>>

GateWaitPollReadError ==
    /\ WaitPollReadError
    /\ UNCHANGED taskVars

ReadFaultNext ==
    \/ Tick
    \/ GateWaitStart
    \/ GateApprove
    \/ GateCancel
    \/ GateCommit
    \/ GateWaitPoll
    \/ GateWaitPollReadError

ReadFaultSpec == GateStart /\ [][ReadFaultNext]_vars

Committing(c) == txn[c].open /\ ~txn'[c].open

OpenAIResponses == {"ok", "RateLimitError", "APIError", "Exception"}
RunwayResponses == {"200", "429", "500", "RequestException"}
RateLimited == {"RateLimitError", "429"}

\* wait_time of the OpenAI loop: 2 ** attempt.  The RateLimitError of the
\* openai package carries no retry_after attribute, so getattr gives None.
OpenAIWaitTime(attempt) == Pow2(attempt)
\* wait_time of the Runway loops on status 429, and the sleep on other errors.
RunwayRateLimitWait(attempt) == 10 * (attempt + 1)
RunwayErrorWait(attempt) == 5 * (attempt + 1)

Sleep(call, wait_time) ==
    [call EXCEPT !.attempt = @ + 1, !.delays = Append(@, wait_time)]

\* A wrapper is called.
UpstreamCall(wrapper) ==
    /\ upstream.state = "idle"
    /\ upstream' = [NoCall EXCEPT !.state = "calling", !.wrapper = wrapper]
    /\ UNCHANGED gateVars
    /\ UNCHANGED <<variant, voice, pc, retries, jobRow, notified, stagesRun,
                   gateResult, requested, clicks, jobDir, extFailure, result,
                   persisted, jobStates, scheduled, sent, batch, split, audio,
                   assembly, timeLimit, dbSegments, pressed, tempDir>>

OpenAICall ==
    /\ upstream.wrapper = ""
    /\ UpstreamCall("_retry_with_backoff")

RunwayGenerateImage ==
    /\ upstream.wrapper = ""
    /\ UpstreamCall("generate_image")

RunwayAnimateImage ==
    /\ upstream.wrapper = ""
    /\ UpstreamCall("animate_image")

\* One pass of `for attempt in range(self.max_retries)` of _retry_with_backoff.
OpenAIAttempt ==
    /\ upstream.state = "calling"
    /\ upstream.wrapper = "_retry_with_backoff"
    /\ upstream.attempt < OPENAI_MAX_RETRIES
    /\ \E r \in OpenAIResponses :
          LET call == [upstream EXCEPT !.responses = Append(@, r)]
              last == upstream.attempt >= OPENAI_MAX_RETRIES - 1
          IN  upstream' =
                 IF r = "ok" THEN [call EXCEPT !.state = "returned"]
                 ELSE IF r = "Exception" \/ last THEN [call EXCEPT !.state = "raised"]
                 ELSE Sleep(call, OpenAIWaitTime(upstream.attempt))
    /\ UNCHANGED gateVars
    /\ UNCHANGED <<variant, voice, pc, retries, jobRow, notified, stagesRun,
                   gateResult, requested, clicks, jobDir, extFailure, result,
                   persisted, jobStates, scheduled, sent, batch, split, audio,
                   assembly, timeLimit, dbSegments, pressed, tempDir>>

\* One pass of `for attempt in range(self.max_retries + 1)` of generate_image
\* or animate_image; after the last pass the statement behind the loop raises.
RunwayAttempt ==
    /\ upstream.state = "calling"
    /\ upstream.wrapper \in {"generate_image", "animate_image"}
    /\ upstream.attempt <= RUNWAY_MAX_RETRIES
    /\ \E r \in RunwayResponses :
          LET call == [upstream EXCEPT !.responses = Append(@, r)]
              last == upstream.attempt = RUNWAY_MAX_RETRIES
              slept == IF r = "429"
                         THEN Sleep(call, RunwayRateLimitWait(upstream.attempt))
                         ELSE Sleep(call, RunwayErrorWait(upstream.attempt))
          IN  upstream' =
                 IF r = "200" THEN [call EXCEPT !.state = "returned"]
                 ELSE IF r = "429"
                   THEN IF last THEN [slept EXCEPT !.state = "raised"] ELSE slept
                 ELSE IF last THEN [call EXCEPT !.state = "raised"] ELSE slept
    /\ UNCHANGED gateVars
    /\ UNCHANGED <<variant, voice, pc, retries, jobRow, notified, stagesRun,
                   gateResult, requested, clicks, jobDir, extFailure, result,
                   persisted, jobStates, scheduled, sent, batch, split, audio,
                   assembly, timeLimit, dbSegments, pressed, tempDir>>

RetryInit ==
    /\ GateInit
    /\ TaskIdle

RetryNext ==
    \/ OpenAICall
    \/ RunwayGenerateImage
    \/ RunwayAnimateImage
    \/ OpenAIAttempt
    \/ RunwayAttempt

RetrySpec == RetryInit /\ [][RetryNext]_vars

\* The delays grow, each by the same factor as the one before it.
ExponentiallyIncreasing(delays) ==
    /\ \A i \in 2..Len(delays) : delays[i] > delays[i - 1]
    /\ \A i \in 3..Len(delays) :
          delays[i] * delays[i - 2] = delays[i - 1] * delays[i - 1]

\* The call has ended and every attempt but a successful last one was
\* rate-limited.
RateLimitedCall ==
    /\ upstream.state \in {"returned", "raised"}
    /\ upstream.responses[1] \in RateLimited
    /\ \A i \in 1..Len(upstream.responses) :
          upstream.responses[i] \in RateLimited \cup {"ok", "200"}

\* C39: a call that was rate-limited makes at most 3 attempts in all, sleeps
\* exponentially increasing delays, one between each two attempts, and raises
\* once the third attempt has been rate-limited too; for all three wrappers.
C39_RateLimitedCallBacksOffExponentially ==
    RateLimitedCall
        => /\ Len(upstream.responses) <= 3
           /\ ExponentiallyIncreasing(upstream.delays)
           /\ Len(upstream.delays) = Len(upstream.responses) - 1
           /\ Last(upstream.responses) \in RateLimited =>
                 /\ upstream.state = "raised"
                 /\ Len(upstream.responses) = 3

\* ------------------------------------------------------------------------
\* FilesSpec: the job directories under TEMP_DIR (file_manager.py), the
\* hourly cleanup task and the cleanup at shutdown (main.py)
\* ------------------------------------------------------------------------
\* tempDir.age[d] is the time since job directory d was last modified, in
\* started ticks (a directory just made is in its first tick: its mtime lies
\* before any later call), or Absent.  tempDir.last is the last operation.

\* max_age_hours = max_age_hours or Config.FILE_CLEANUP_HOURS
OrDefault(max_age_hours) ==
    IF max_age_hours = 0 THEN FILE_CLEANUP_HOURS ELSE max_age_hours

\* dir_mtime < cutoff_time, with cutoff_time = now - timedelta(hours = max_age_hours)
OlderThan(age, max_age_hours) == age > max_age_hours * TicksPerHour

\* What cleanup_old_files leaves of the directories: shutil.rmtree of every
\* one that is older than the cutoff.
cleanup_old_files(age, max_age_hours) ==
    [d \in DirNames |->
        IF age[d] # Absent /\ OlderThan(age[d], OrDefault(max_age_hours))
          THEN Absent ELSE age[d]]

FilesUnchanged ==
    /\ UNCHANGED gateVars
    /\ UNCHANGED <<variant, voice, pc, retries, jobRow, notified, stagesRun,
                   gateResult, requested, clicks, jobDir, extFailure, result,
                   persisted, jobStates, scheduled, sent, batch, split, audio,
                   assembly, timeLimit, dbSegments, pressed, upstream>>

\* job_dir.mkdir(parents=True, exist_ok=True) for a new job.
create_job_directory ==
    /\ ~tempDir.stopped
    /\ \E d \in DirNames :
          /\ tempDir.age[d] = Absent
          /\ tempDir' = [tempDir EXCEPT !.age[d] = 1,
                                        !.last = "create_job_directory"]
    /\ FilesUnchanged

\* shutil.rmtree(job_dir) of a job that has ended.
cleanup_job ==
    /\ ~tempDir.stopped
    /\ \E d \in DirNames :
          /\ tempDir.age[d] # Absent
          /\ tempDir' = [tempDir EXCEPT !.age[d] = Absent, !.last = "cleanup_job"]
    /\ FilesUnchanged

\* One tick of time passes; nothing touches the directories.
TimePasses ==
    /\ ~tempDir.stopped
    /\ \E d \in DirNames : tempDir.age[d] # Absent
    /\ \A d \in DirNames : tempDir.age[d] < MaxAge
    /\ tempDir' = [tempDir EXCEPT
                      !.age = [d \in DirNames |->
                                  IF @[d] = Absent THEN Absent ELSE @[d] + 1],
                      !.last = "sleep"]
    /\ FilesUnchanged

\* The beat task app.tasks.cleanup_old_files.
ScheduledCleanup ==
    /\ ~tempDir.stopped
    /\ tempDir' = [tempDir EXCEPT !.age = cleanup_old_files(@, FILE_CLEANUP_HOURS),
                                  !.last = "cleanup_old_files"]
    /\ FilesUnchanged

\* Shutdown: file_manager.cleanup_old_files(max_age_hours=0); the application
\* creates and removes nothing after it.
cleanup_resources ==
    /\ ~tempDir.stopped
    /\ tempDir' = [age |-> cleanup_old_files(tempDir.age, 0), stopped |-> TRUE,
                   last |-> "cleanup_resources"]
    /\ FilesUnchanged

FilesInit ==
    /\ GateInit
    /\ TaskIdle

FilesNext ==
    \/ create_job_directory
    \/ cleanup_job
    \/ TimePasses
    \/ ScheduledCleanup
    \/ cleanup_resources

FilesSpec == FilesInit /\ [][FilesNext]_vars

\* C40: after the cleanup at shutdown, cleanup_old_files(max_age_hours=0), no
\* job directory is left under the temp directory, whatever its age was.
C40_ShutdownRemovesEveryJobDirectory ==
    tempDir.stopped => \A d \in DirNames : tempDir.age[d] = Absent

====
